---- MODULE Spec2Model ----
(***************************************************************************)
(* State-machine model of the assignment and phase-dependency engine of    *)
(* the SteamXQuality bot (src/backend/assignment.py, helpers.py,           *)
(* deadline_manager.py) and of the bot's thread registry and timers        *)
(* (src/bot).  The spreadsheet is the state: the project sheet and the     *)
(* three candidate sheets, next to the bot's registry file.  Every engine entry point is one        *)
(* action; cell texts are strings and the string conversions of the code   *)
(* (strip, lstrip, upper, capitalize, isdigit, int, float, split) are      *)
(* computed on the characters of the text.                                 *)
(***************************************************************************)
EXTENDS Integers, Sequences, FiniteSets, TLC

VARIABLES
    sheet,        \* frontend_project: the data rows below the two header rows
    writers,      \* writer_sheet: the data rows below the header row
    designers,    \* designer_sheet
    controllers,  \* controller_sheet
    last,         \* what the most recent call did and returned
    calls,        \* how many engine calls the run has made
    runs,         \* the batch invocations in flight, each with its position and locals
    db,           \* thread_db.json: the thread registry of bot/utils.py
    scan,         \* auto_fail_expired_threads: its position and its copy of the registry
    sent,         \* the QC result messages sent so far
    clock         \* the bot's clock, in days

vars == <<sheet, writers, designers, controllers, last, calls, runs, db, scan, sent, clock>>

(***************************************************************************)
(* Python string operations on cell texts.                                 *)
(***************************************************************************)
LowerLetters == "abcdefghijklmnopqrstuvwxyz"
UpperLetters == "ABCDEFGHIJKLMNOPQRSTUVWXYZ"
Digits == "0123456789"

Char(s, i) == SubSeq(s, i, i)

CharsOf(s) == {Char(s, i) : i \in 1..Len(s)}

PositionIn(s, c) == CHOOSE i \in 1..Len(s) : Char(s, i) = c

\* str.upper() and str.lower() of one character
UpperChar == [c \in CharsOf(LowerLetters) |-> Char(UpperLetters, PositionIn(LowerLetters, c))]
LowerChar == [c \in CharsOf(UpperLetters) |-> Char(LowerLetters, PositionIn(UpperLetters, c))]

\* the value of a digit character
DigitValue == [c \in CharsOf(Digits) |-> PositionIn(Digits, c) - 1]

ToUpper(c) == IF c \in DOMAIN UpperChar THEN UpperChar[c] ELSE c
ToLower(c) == IF c \in DOMAIN LowerChar THEN LowerChar[c] ELSE c

RECURSIVE str_upper(_)
\* str.upper()
str_upper(s) == IF s = "" THEN "" ELSE ToUpper(Char(s, 1)) \o str_upper(Tail(s))

RECURSIVE lower(_)
\* str.lower()
lower(s) == IF s = "" THEN "" ELSE ToLower(Char(s, 1)) \o lower(Tail(s))

\* str.capitalize(): first character upper-cased, the rest lower-cased
capitalize(s) == IF s = "" THEN "" ELSE ToUpper(Char(s, 1)) \o lower(Tail(s))

Least(S) == CHOOSE m \in S : \A x \in S : m <= x
Greatest(S) == CHOOSE m \in S : \A x \in S : m >= x

\* the positions of s that do not hold the character c
Others(s, c) == {i \in 1..Len(s) : Char(s, i) # c}

FromFirst(s, kept) == IF kept = {} THEN "" ELSE SubSeq(s, Least(kept), Len(s))
UpToLast(s, kept) == IF kept = {} THEN "" ELSE SubSeq(s, 1, Greatest(kept))

\* str.lstrip(c) and str.rstrip(c) for a one-character c
lstrip(s, c) == FromFirst(s, Others(s, c))
rstrip(s, c) == UpToLast(s, Others(s, c))

\* the blank of the cell texts
Whitespace == " "

\* str.strip()
str_strip(s) == rstrip(lstrip(s, Whitespace), Whitespace)

\* str.isdigit()
isdigit(s) == s # "" /\ \A i \in 1..Len(s) : Char(s, i) \in DOMAIN DigitValue

\* str.startswith(c) for a one-character c
startswith(s, c) == s # "" /\ Char(s, 1) = c

RECURSIVE DigitsValue(_, _)
DigitsValue(s, acc) ==
    IF s = "" THEN acc
    ELSE DigitsValue(Tail(s), acc * 10 + DigitValue[Char(s, 1)])

\* the number a text of digits denotes; -1 stands for the ValueError of
\* int() and float() on any other text
NumberOf(s) == IF isdigit(s) THEN DigitsValue(s, 0) ELSE -1

\* int(s) and float(s) of a cell text holding a whole non-negative number:
\* blanks around the number are allowed
int(s) == NumberOf(str_strip(s))
float(s) == NumberOf(str_strip(s))

RECURSIVE ZeroPad(_, _)
ZeroPad(s, width) == IF Len(s) >= width THEN s ELSE ZeroPad("0" \o s, width)

RECURSIVE NatToText(_)
NatToText(n) ==
    IF n < 10 THEN Char(Digits, n + 1)
    ELSE NatToText(n \div 10) \o Char(Digits, (n % 10) + 1)

RECURSIVE SplitFrom(_, _, _)
\* str.split(sep) for a one-character sep: the pieces between separators
SplitFrom(s, sep, cur) ==
    IF s = "" THEN <<cur>>
    ELSE IF Char(s, 1) = sep THEN <<cur>> \o SplitFrom(Tail(s), sep, "")
    ELSE SplitFrom(Tail(s), sep, cur \o Char(s, 1))

split(s, sep) == SplitFrom(s, sep, "")

\* [x.strip() for x in parts if x.strip()]
Stripped(parts) ==
    SelectSeq([i \in 1..Len(parts) |-> str_strip(parts[i])], LAMBDA x : x # "")

\* [pid.strip() for pid in cell.split(',') if pid.strip()]
WorkList(cell) == Stripped(split(cell, ","))

\* set(work)
SetOf(work) == {work[i] : i \in 1..Len(work)}

(***************************************************************************)
(* The sheets the model starts from.                                       *)
(***************************************************************************)
ProjectRow(id, priority, writerReq, designerReq, ready, connected, topic, qcExit,
           writer, writerQc, designer, designQc) ==
    [PROJECT_ID |-> id, PRIORITY |-> priority, WRITER_REQUIRED |-> writerReq,
     DESIGNER_REQUIRED |-> designerReq, READY_TO_ASSIGN |-> ready,
     PROJECT_CONNECTED |-> connected, WRITER_TOPIC |-> topic,
     WRITER_QC_EXIT_DATE |-> qcExit, ASSIGNED_WRITER |-> writer,
     WRITER_QC_CONTROLLER |-> writerQc, ASSIGNED_DESIGNER |-> designer,
     DESIGN_QC_CONTROLLER |-> designQc]

\* the first data row: a project with a well-formed id
FirstRows ==
    { ProjectRow("#000001", "High", "YES", "YES", "YES", "", "Science", "", "", "", "", ""),
      ProjectRow("#000001", "", "true", "Y", "yes", "No", "Art", "", "", "", "", ""),
      ProjectRow("#000001", "Low", "YES", "NO", "Y", "", "", "", "", "", "", ""),
      ProjectRow("#000001", "Medium", "YES", "YES", "YES", "YES", "Science", " ",
                 "Eve", "", "", "Quinn") }

\* the second data row: also rows without an id, with an id formatPID
\* rejects, and with an id that is not in canonical form
SecondRows ==
    { ProjectRow("#000002", "Medium", "NO", "YES", "TRUE", "", "", "", "", "", "", ""),
      ProjectRow("#000002", "High", "YES", "YES", "NO", "", "Science", "", "", "", "", ""),
      ProjectRow("", "High", "YES", "YES", "YES", "", "Science", "", "", "", "", ""),
      ProjectRow("#12ab", "High", "YES", "YES", "YES", "", "Science", "", "", "", "", ""),
      ProjectRow("#7", "High", "YES", "YES", "YES", "", "Science", "", "", "", "", "") }

InitSheets == {<<r1, r2>> : r1 \in FirstRows, r2 \in SecondRows}

\* the texts of a writer-required cell and of a writer-QC-exit cell
RequiredTexts == {"YES", "yes", "Yes", "TRUE", "true", "1", "Y", "y", "NO", "no", ""}
MarkerTexts == {"", " ", "2025-03-01"}

\* one-project sheets for the phase gate
GateRows ==
    { ProjectRow("#000001", "High", required, "YES", "YES", "YES", "Science", marker,
                 "Eve", "Quinn", "", "") :
          required \in RequiredTexts, marker \in MarkerTexts }

GateSheets == {<<r>> : r \in GateRows}

\* a project the batch has postponed: connected, writer assigned, writing QC
\* not passed, no designer yet
PostponedRows ==
    { ProjectRow("#000001", priority, "YES", "YES", "YES", "YES", "Science", "", "Eve",
                 "Quinn", "", "") : priority \in {"High", "Low"} }

\* the row below it: a connected project without writer, a connected row
\* whose id formatPID rejects, a project not yet connected, and a second
\* postponed project
NeighbourRows ==
    { ProjectRow("#000002", "Medium", "NO", "YES", "TRUE", "YES", "", "", "", "", "", ""),
      ProjectRow("#12ab", "High", "NO", "YES", "YES", "YES", "", "", "", "", "", ""),
      ProjectRow("#000002", "High", "YES", "YES", "YES", "", "Science", "", "", "", "", ""),
      ProjectRow("#000002", "Medium", "YES", "Y", "YES", "yes", "Art", "", "Eve", "", "",
                 "") }

PostponedSheets == {<<r1, r2>> : r1 \in PostponedRows, r2 \in NeighbourRows}

WriterRow(name, category, assigned, finished, kpi) ==
    [NAME |-> name, CATEGORY |-> category, ASSIGNED_WORK |-> assigned,
     WRITINGS_FINISHED |-> finished, KPI |-> kpi]

DesignerRow(name, platform, assigned, finished, kpi, principles) ==
    [NAME |-> name, PLATFORM |-> platform, ASSIGNED_WORK |-> assigned,
     DESIGNS_FINISHED |-> finished, KPI |-> kpi, DESIGN_PRINCIPLES |-> principles]

ControllerRow(name, speciality, kpi, ongoing, total) ==
    [NAME |-> name, SPECIALITY |-> speciality, KPI |-> kpi, ONGOING |-> ongoing,
     TOTAL |-> total]

Ann == WriterRow("Ann", "Science", "#000004, #000005", "#000004", "9")
Bob == WriterRow(" Bob", "ANY", "", "", "8")
Nameless == WriterRow("  ", "Art", "", "", "10")
BadKpi == WriterRow("Zed", "Science", "", "", "n/a")

\* a writer the sheet marks as not to be assigned
Dna == WriterRow("Dna", "DO NOT ASSIGN", "", "", "9")

\* that writer alone, next to a row the ranker drops, and next to others
BlacklistTables == { <<Dna>>, <<BadKpi, Dna>>, <<Ann, Dna>>, <<Dna, Bob>> }

WriterTables == { <<>>, <<Ann, Bob>>, <<Nameless, BadKpi>> } \cup BlacklistTables

Dan == DesignerRow("Dan", "Figma", "#000004", "", "7", "yes")
Dee == DesignerRow("Dee", "Adobe", "", "", "", "NO")

DesignerTables == { <<>>, <<Dan, Dee>> }

Cy == ControllerRow("Cy", "writing", "5", "#000004", "#000004")
Col == ControllerRow("Col", "Design", "6", "", "")
Kim == ControllerRow("Kim", "Both", "4", "", "")

ControllerTables == { <<>>, <<Cy, Col>>, <<Kim>> }

\* ids assignAll is called with: canonical, bare digits, an id no row
\* carries, and an id out of formatPID's range
PidInputs == {"#000001", "2", "#000009", "1234567"}

\* ids the single-role entry points are called with
SinglePidInputs == {"#000001", "#000009"}


QcExitDate == "2025-03-01"

\* the texts of a project-deadline cell: the two accepted formats, an
\* empty cell, and texts neither format takes
UnparseableTexts == {"20.03.2025", "2025-02-30", "2025/03/20", "soon"}
DeadlineTexts == {"2025-03-20", " 2025-03-20 ", "03/20/2025", "3/5/2025", ""} \cup UnparseableTexts

\* a project row with its project-deadline cell and the two cells of the
\* write-back
DeadlineRow(base, deadline) ==
    base @@ [PROJECT_DEADLINE |-> deadline, WRITER_DEADLINE |-> "", DESIGN_DEADLINE |-> ""]

DeadlineRows ==
    { DeadlineRow(base, deadline) :
          base \in {r \in FirstRows : r.ASSIGNED_WRITER = ""}, deadline \in DeadlineTexts }

DeadlineNeighbour ==
    DeadlineRow(ProjectRow("#000002", "None", "NO", "yes", "YES", "", "", "", "", "", "", ""),
                "2025-04-01")

DeadlineSheets == {<<r1, DeadlineNeighbour>> : r1 \in DeadlineRows}


(***************************************************************************)
(* Projects under QC, with the two QC result cells.                        *)
(***************************************************************************)
QcResultTexts == {"", "PASS", "pass", " Fail ", "Pending"}

QcRow(base, writer_result, design_result) ==
    base @@ [WRITER_QC_RESULT |-> writer_result, DESIGN_QC_RESULT |-> design_result]

\* a staffed project, a project without controllers, and a row without id
QcBases ==
    { ProjectRow("#000001", "High", "YES", "YES", "YES", "YES", "Science", "2025-03-01",
                 "Eve", "Quinn", "Dan", "Col"),
      ProjectRow("#000001", "Low", "YES", "NO", "YES", "YES", "Art", "", " Eve", " ", "", ""),
      ProjectRow("", "High", "YES", "YES", "YES", "YES", "Science", "", "Eve", "Quinn",
                 "Dan", "Col") }

QcRows ==
    { QcRow(base, writer_result, design_result) :
          base \in QcBases, writer_result \in QcResultTexts, design_result \in {"", "FAIL"} }

QcNeighbour ==
    QcRow(ProjectRow("#000002", "Medium", "NO", "YES", "YES", "YES", "", "", "", "", "Dee",
                     "Col"), "", "")

QcSheets == {<<r1, QcNeighbour>> : r1 \in QcRows}
(***************************************************************************)
(* helpers.py                                                              *)
(***************************************************************************)
PidWidth == 6
MaxPid == 999999
HeaderRows == 2

\* what an operator yields when the function it models raises ValueError
ValueError == "ValueError"

\* lines 108-111
FormatNumber(num) ==
    IF num < 0 \/ num > MaxPid THEN ValueError
    ELSE "#" \o ZeroPad(NatToText(num), PidWidth)

\* formatPID: the canonical text, or ValueError when the id is rejected
formatPID(pid) == FormatNumber(int(lstrip(str_strip(pid), "#")))

\* lines 121-122
Normalized(pid) ==
    IF ~startswith(pid, "#") /\ isdigit(pid) THEN formatPID(pid) ELSE pid

\* lines 120-122: the text getProjectRow searches column A for
NormalizedPid(project_id) == Normalized(lstrip(str_strip(project_id), "'"))

\* lines 127-128: the text of a column A cell that is compared with the id
CellPid(val) == lstrip(str_strip(val), "'")

\* the id texts of the model: the ids of the calls, the column A cells, and
\* the ids the batch scans take from the cells
PidTexts ==
    {"#000001", "#000002", "#000009", "#12ab", "#7", "",
     "000001", "000002", "12ab", "7", "2", "1234567",
     "1", "#1", "##1", " 1 ", "'1", "'#000001", " #000001 "}

\* the three conversions of ids, worked out once for the id texts
FormatPidTable == [t \in PidTexts |-> formatPID(t)]
NormalizedPidTable == [t \in PidTexts |-> NormalizedPid(t)]
CellPidTable == [t \in PidTexts |-> CellPid(t)]

\* getProjectRow raised
Raised == -2

\* lines 126-131: the first row of column A that holds pid, -1 when none does
FirstRow(hits) == IF hits = {} THEN -1 ELSE Least(hits) + HeaderRows

SearchColumnA(pid, sh) ==
    IF pid = ValueError THEN Raised
    ELSE FirstRow({i \in 1..Len(sh) : CellPidTable[sh[i].PROJECT_ID] = pid})

\* getProjectRow: the 1-based sheet row of the project, -1 when absent,
\* Raised when formatPID rejects an all-digit id
getProjectRow(project_id, sh) == SearchColumnA(NormalizedPidTable[project_id], sh)

\* frontend_project.cell(row, col).value
Cell(sh, row, col) == sh[row - HeaderRows][col]

\* frontend_project.update_cell(row, col, value)
UpdateCell(sh, row, col, value) ==
    [sh EXCEPT ![row - HeaderRows][col] = value]

(***************************************************************************)
(* Scoring (helpers.py) and ranking (assignment.py).  Scores are whole     *)
(* numbers: the KPI texts of the model are whole numbers.                  *)
(***************************************************************************)
PLATFORM_HIERARCHY ==
    <<"Adobe", "Figma", "Canva", "ProCreate", "Sketch", "Variety", "Other">>

Max(a, b) == IF a >= b THEN a ELSE b

PenaltyFor(p, open_tasks) ==
    CASE p = "High" -> 10 * open_tasks
      [] p = "Medium" -> 6 * open_tasks
      [] p = "Low" -> 3 * open_tasks
      [] OTHER -> 1 * open_tasks

\* the weight looked up with the priority text as it was given
PenaltyOfRawText(priority, open_tasks) == PenaltyFor(priority, open_tasks)

getWorkloadPenalty(priority, open_tasks) ==
    PenaltyFor(capitalize(str_strip(priority)), open_tasks)

\* the match test without the case folding of line 154
TopicPenaltyExact(topic, category) ==
    IF topic = category THEN 0
    ELSE IF category = "ANY" THEN 2
    ELSE IF category = "DO NOT ASSIGN" THEN 1000
    ELSE 10

TopicPenalty(topic, category) ==
    IF str_upper(topic) = category THEN 0
    ELSE IF category = "ANY" THEN 2
    ELSE IF category = "DO NOT ASSIGN" THEN 1000
    ELSE 10

getTopicPenalty(required_topic, writer_category) ==
    TopicPenalty(capitalize(str_strip(required_topic)), str_upper(str_strip(writer_category)))

\* a cell that is not a number counted as 0
KpiOrZero(cell) == IF cell = "" \/ float(cell) < 0 THEN 0 ELSE float(cell)

\* float(get('KPI') or 0): -1 when float() raises
KpiOf(cell) == IF cell = "" THEN 0 ELSE float(cell)

OpenTasks(assigned, finished) ==
    Cardinality(SetOf(WorkList(str_strip(assigned))) \ SetOf(WorkList(str_strip(finished))))

PlatformIndex(hits) == IF hits = {} THEN Len(PLATFORM_HIERARCHY) ELSE Least(hits) - 1

\* PLATFORM_HIERARCHY.index(platform), len(PLATFORM_HIERARCHY) when absent
PlatformRank(platform) ==
    PlatformIndex({i \in 1..Len(PLATFORM_HIERARCHY) : PLATFORM_HIERARCHY[i] = platform})

Candidate(kpi, name, score) == [ok |-> kpi >= 0, name |-> name, score |-> kpi + score]

\* the designer scored without the floor of the platform bonus
DesignerRowUnfloored(row, priority) ==
    Candidate(KpiOf(str_strip(row.KPI)), str_strip(row.NAME),
              5 - PlatformRank(str_strip(row.PLATFORM))
              + (IF str_upper(str_strip(row.DESIGN_PRINCIPLES)) = "YES" THEN 3 ELSE 0)
              - getWorkloadPenalty(priority,
                                   OpenTasks(row.ASSIGNED_WORK, row.DESIGNS_FINISHED)))

\* processDesignerRow: [ok, name, score]; ok is FALSE when the row raises
processDesignerRow(row, priority) ==
    Candidate(KpiOf(str_strip(row.KPI)), str_strip(row.NAME),
              Max(0, 5 - PlatformRank(str_strip(row.PLATFORM)))
              + (IF str_upper(str_strip(row.DESIGN_PRINCIPLES)) = "YES" THEN 3 ELSE 0)
              - getWorkloadPenalty(priority,
                                   OpenTasks(row.ASSIGNED_WORK, row.DESIGNS_FINISHED)))

\* the writer scored with the weight of a High priority project
WriterRowHighWeight(row, topic) ==
    Candidate(KpiOf(str_strip(row.KPI)), str_strip(row.NAME),
              0 - getTopicPenalty(topic, row.CATEGORY)
              - getWorkloadPenalty("High",
                                   OpenTasks(row.ASSIGNED_WORK, row.WRITINGS_FINISHED)))

\* processWriterRow
processWriterRow(row, topic) ==
    Candidate(KpiOf(str_strip(row.KPI)), str_strip(row.NAME),
              0 - getTopicPenalty(topic, row.CATEGORY)
              - getWorkloadPenalty("Medium",
                                   OpenTasks(row.ASSIGNED_WORK, row.WRITINGS_FINISHED)))

\* processControllerRow
processControllerRow(row) ==
    [speciality |-> str_strip(row.SPECIALITY)]
    @@ Candidate(KpiOf(str_strip(row.KPI)), str_strip(row.NAME),
                 0 - Len(WorkList(str_strip(row.ONGOING))) * 2)

\* filterValidRows: the rows whose name cell is not blank, in sheet order
filterValidRows(rows) == SelectSeq(rows, LAMBDA r : str_strip(r.NAME) # "")

RECURSIVE InsertBeforeEqual(_, _)
\* x placed in front of the entries of its own score
InsertBeforeEqual(sorted, x) ==
    IF sorted = <<>> THEN <<x>>
    ELSE IF Head(sorted).score > x.score
         THEN <<Head(sorted)>> \o InsertBeforeEqual(Tail(sorted), x)
    ELSE <<x>> \o sorted

RECURSIVE InsertByScore(_, _)
\* x placed behind every entry whose score is at least its own
InsertByScore(sorted, x) ==
    IF sorted = <<>> THEN <<x>>
    ELSE IF Head(sorted).score >= x.score
         THEN <<Head(sorted)>> \o InsertByScore(Tail(sorted), x)
    ELSE <<x>> \o sorted

RECURSIVE SortByScore(_)
\* ranked.sort(key=lambda c: -c.score): descending and stable
SortByScore(ranked) ==
    IF ranked = <<>> THEN <<>>
    ELSE InsertByScore(SortByScore(SubSeq(ranked, 1, Len(ranked) - 1)),
                       ranked[Len(ranked)])

Names(ranked) == [i \in 1..Len(ranked) |-> ranked[i].name]

\* the rows that were processed without an exception, ranked
Ranked(processed) == Names(SortByScore(SelectSeq(processed, LAMBDA c : c.ok)))

\* Process applied to every valid row
Processed(valid, Process(_)) == [i \in 1..Len(valid) |-> Process(valid[i])]

getBestDesigner(priority, designer_sheet) ==
    Ranked(Processed(filterValidRows(designer_sheet),
                     LAMBDA r : processDesignerRow(r, priority)))

getBestWriter(topic, writer_sheet) ==
    Ranked(Processed(filterValidRows(writer_sheet),
                     LAMBDA r : processWriterRow(r, topic)))

\* the controllers of the wanted speciality alone
MatchesWanted(speciality, wanted) == speciality = wanted

\* lines 169-170
Matches(speciality, wanted) == speciality \in {wanted, "BOTH", "ANY"}

getBestController(speciality, controller_sheet) ==
    Ranked(SelectSeq(Processed(filterValidRows(controller_sheet), processControllerRow),
                     LAMBDA c : Matches(str_upper(c.speciality), str_upper(speciality))))

(***************************************************************************)
(* strip() and upper() of the cell texts of the model, worked out once.    *)
(***************************************************************************)
RowTexts(rows) == UNION {{r[f] : f \in DOMAIN r} : r \in rows}

CellTexts ==
    RowTexts(FirstRows \cup SecondRows \cup GateRows \cup PostponedRows \cup NeighbourRows)
    \cup RowTexts(DeadlineRows \cup {DeadlineNeighbour})
    \cup RowTexts(QcRows \cup {QcNeighbour})
    \cup {QcExitDate, "YES"}
    \cup {str_strip(r.NAME) : r \in {Ann, Bob, Dna, Dan, Dee, Cy, Col, Kim}}

StripTable == [t \in CellTexts |-> str_strip(t)]
UpperTable == [t \in CellTexts \cup {str_strip(t) : t \in CellTexts} |-> str_upper(t)]

strip(s) == StripTable[s]
upper(s) == UpperTable[s]

\* Python truthiness of "s and s.strip()"
NonBlank(s) == strip(s) # ""

\* the topics and priorities of the projects of the model
Topics == {"Science", "Art"}
Priorities == {"High", "Medium", "Low", "None"}
Specialities == {"Writing", "Design"}

\* the rankings of the candidate sheets of the model, worked out once
BestWriterTable ==
    [t \in WriterTables |-> [topic \in Topics |-> getBestWriter(topic, t)]]
BestDesignerTable ==
    [t \in DesignerTables |-> [priority \in Priorities |-> getBestDesigner(priority, t)]]
BestControllerTable ==
    [t \in ControllerTables |->
        [speciality \in Specialities |-> getBestController(speciality, t)]]

\* the rankings an assign function asks for
RankedWriters(topic, writer_sheet) == BestWriterTable[writer_sheet][topic]
RankedDesigners(priority, designer_sheet) == BestDesignerTable[designer_sheet][priority]
RankedControllers(speciality, controller_sheet) ==
    BestControllerTable[controller_sheet][speciality]

(***************************************************************************)
(* Exceptions are named by their message; NoExc is "no exception".  A      *)
(* store fault is the gspread call of one step raising APIError before     *)
(* the step writes anything.                                               *)
(***************************************************************************)
NoExc == ""
NotFound == "Project not found"
InvalidPid == "Invalid project ID"
APIError == "APIError"

Outcome(sh, exc) == [sheet |-> sh, exc |-> exc]

\* print(f"... {formatPID(pid)} ...") raises when formatPID rejects pid
PrintPidExc(pid) == IF FormatPidTable[pid] = ValueError THEN InvalidPid ELSE NoExc

\* "already assigned ... Skipping.": the message is printed, nothing is written
Skipping(sh, pid) == Outcome(sh, PrintPidExc(pid))

\* the first of the ranking is written and the project is marked connected
ChooseMarkingConnected(sh, row, col, ranked, pid) ==
    IF ranked = <<>> THEN Outcome(sh, NoExc)
    ELSE Outcome(UpdateCell(UpdateCell(sh, row, col, ranked[1]), row, "PROJECT_CONNECTED", "YES"),
                 PrintPidExc(pid))

\* the first of the ranking is written and the assignment is printed; an
\* empty ranking writes nothing
Choose(sh, row, col, ranked, pid) ==
    IF ranked = <<>> THEN Outcome(sh, NoExc)
    ELSE Outcome(UpdateCell(sh, row, col, ranked[1]), PrintPidExc(pid))

\* cell(row, priority_col).value or "None"
PriorityOf(cell) == IF cell = "" THEN "None" ELSE cell

\* lines 67-91
DesignerAt(row, pid, sh, designer_sheet) ==
    IF row = Raised THEN Outcome(sh, InvalidPid)
    ELSE IF row = -1 THEN Outcome(sh, NotFound)
    ELSE IF NonBlank(Cell(sh, row, "ASSIGNED_DESIGNER")) THEN Skipping(sh, pid)
    ELSE Choose(sh, row, "ASSIGNED_DESIGNER",
                RankedDesigners(PriorityOf(Cell(sh, row, "PRIORITY")), designer_sheet),
                pid)

assignDesigner(pid, sh, designer_sheet, fail) ==
    IF fail THEN Outcome(sh, APIError)
    ELSE DesignerAt(getProjectRow(pid, sh), pid, sh, designer_sheet)

\* assignWriter as it would be with the default topic of
\* getAssignmentRecommendations (lines 139-145) for a blank topic cell
WriterAtDefaultTopic(row, pid, sh, writer_sheet) ==
    IF row = Raised THEN Outcome(sh, InvalidPid)
    ELSE IF row = -1 THEN Outcome(sh, NotFound)
    ELSE IF NonBlank(Cell(sh, row, "ASSIGNED_WRITER")) THEN Skipping(sh, pid)
    ELSE Choose(sh, row, "ASSIGNED_WRITER",
                RankedWriters(IF NonBlank(Cell(sh, row, "WRITER_TOPIC"))
                              THEN strip(Cell(sh, row, "WRITER_TOPIC")) ELSE "Science",
                              writer_sheet), pid)

\* lines 96-125
WriterAt(row, pid, sh, writer_sheet) ==
    IF row = Raised THEN Outcome(sh, InvalidPid)
    ELSE IF row = -1 THEN Outcome(sh, NotFound)
    ELSE IF NonBlank(Cell(sh, row, "ASSIGNED_WRITER")) THEN Skipping(sh, pid)
    ELSE IF ~NonBlank(Cell(sh, row, "WRITER_TOPIC")) THEN Skipping(sh, pid)
    ELSE Choose(sh, row, "ASSIGNED_WRITER",
                RankedWriters(strip(Cell(sh, row, "WRITER_TOPIC")), writer_sheet), pid)

assignWriter(pid, sh, writer_sheet, fail) ==
    IF fail THEN Outcome(sh, APIError)
    ELSE WriterAt(getProjectRow(pid, sh), pid, sh, writer_sheet)

\* a controller step without the already-assigned guard of lines 189 and 214
ControllerAtOverwriting(row, pid, sh, col, speciality, controller_sheet) ==
    IF row = Raised THEN Outcome(sh, InvalidPid)
    ELSE IF row = -1 THEN Outcome(sh, NotFound)
    ELSE Choose(sh, row, col, RankedControllers(speciality, controller_sheet), pid)

\* lines 182-201 and 207-226
ControllerAt(row, pid, sh, col, speciality, controller_sheet) ==
    IF row = Raised THEN Outcome(sh, InvalidPid)
    ELSE IF row = -1 THEN Outcome(sh, NotFound)
    ELSE IF NonBlank(Cell(sh, row, col)) THEN Skipping(sh, pid)
    ELSE Choose(sh, row, col, RankedControllers(speciality, controller_sheet), pid)

assignWriterController(pid, sh, controller_sheet, fail) ==
    IF fail THEN Outcome(sh, APIError)
    ELSE ControllerAt(getProjectRow(pid, sh), pid, sh, "WRITER_QC_CONTROLLER",
                      "Writing", controller_sheet)

assignDesignerController(pid, sh, controller_sheet, fail) ==
    IF fail THEN Outcome(sh, APIError)
    ELSE ControllerAt(getProjectRow(pid, sh), pid, sh, "DESIGN_QC_CONTROLLER",
                      "Design", controller_sheet)

(***************************************************************************)
(* deadline_manager.py: the phase gate.                                    *)
(***************************************************************************)
\* lines 222-229
WritingDone(writer_required, writer_qc_done) ==
    IF writer_required = "" \/ upper(writer_required) # "YES" THEN TRUE
    ELSE NonBlank(writer_qc_done)

\* lines 217-229, a row that getProjectRow found or did not find
GateAt(row, sh) ==
    IF row = -1 THEN FALSE
    ELSE WritingDone(Cell(sh, row, "WRITER_REQUIRED"),
                     Cell(sh, row, "WRITER_QC_EXIT_DATE"))

should_contact_designer(project_id, sh) == GateAt(getProjectRow(project_id, sh), sh)

(***************************************************************************)
(* assignment.py: assignAll.  The value is [sheet, exc, results, log]:     *)
(* the sheet as the call leaves it, the exception that escapes (NoExc when *)
(* the call returns), the returned map, and the role steps that ran.       *)
(***************************************************************************)
\* F of e, with e worked out once: a statement's result bound to a name
Then(e, F(_)) == CHOOSE r \in {F(v) : v \in {e}} : TRUE

TruthyWords == {"YES", "TRUE", "1", "Y"}

AssignAllFaults ==
    {"none", "lookup", "writer", "writer_controller", "gate", "designer",
     "design_controller"}

\* a failure reported by its bare reason
Reason(exc) == exc

Failed(exc) == "Failed: " \o exc

\* the outcome of one role and of its controller
Pair(sh, worker, controller, log) ==
    [sheet |-> sh, worker |-> worker, controller |-> controller, log |-> log]

NotRequiredPair(sh) == Pair(sh, "Not required", "Not required", <<>>)

WaitingPair(sh) ==
    Pair(sh, "Waiting for writing completion", "Waiting for writing completion", <<>>)

\* a controller step whose failure goes unreported
ControllerDoneSilent(c, steps) == Pair(c.sheet, "Assigned", "Assigned", steps)

\* lines 282-287 and 311-316: the controller step c has returned or raised
ControllerDone(c, steps) ==
    Pair(c.sheet, "Assigned", IF c.exc = NoExc THEN "Assigned" ELSE Failed(c.exc), steps)

\* lines 279-292: the writer step w has returned or raised
WriterDone(w, pid, controller_sheet, fault) ==
    IF w.exc # NoExc
    THEN Pair(w.sheet, Failed(w.exc), "Skipped (no writer)", <<"assignWriter">>)
    ELSE Then(assignWriterController(pid, w.sheet, controller_sheet,
                                     fault = "writer_controller"),
              LAMBDA c : ControllerDone(c, <<"assignWriter", "assignWriterController">>))

\* lines 276-292
WriterSide(pid, sh, writer_sheet, controller_sheet, fault) ==
    Then(assignWriter(pid, sh, writer_sheet, fault = "writer"),
         LAMBDA w : WriterDone(w, pid, controller_sheet, fault))

\* lines 308-321: the designer step d has returned or raised
DesignerDone(d, pid, controller_sheet, fault) ==
    IF d.exc # NoExc
    THEN Pair(d.sheet, Failed(d.exc), "Skipped (no designer)", <<"assignDesigner">>)
    ELSE Then(assignDesignerController(pid, d.sheet, controller_sheet,
                                       fault = "design_controller"),
              LAMBDA c : ControllerDone(c, <<"assignDesigner", "assignDesignerController">>))

\* the designer side without the phase gate of lines 295-303
DesignerSideUngated(pid, sh, designer_sheet, controller_sheet, fault) ==
    Then(assignDesigner(pid, sh, designer_sheet, fault = "designer"),
         LAMBDA d : DesignerDone(d, pid, controller_sheet, fault))

\* lines 305-325
DesignerSide(pid, sh, designer_sheet, controller_sheet, fault) ==
    IF should_contact_designer(pid, sh)
    THEN Then(assignDesigner(pid, sh, designer_sheet, fault = "designer"),
              LAMBDA d : DesignerDone(d, pid, controller_sheet, fault))
    ELSE WaitingPair(sh)

AllRaised(sh, exc, log) ==
    [sheet |-> sh, exc |-> exc, results |-> <<>>, log |-> log]

\* lines 327-333
Results(w, d) ==
    [sheet |-> d.sheet, exc |-> NoExc,
     results |-> [writer |-> w.worker, writer_controller |-> w.controller,
                  designer |-> d.worker, design_controller |-> d.controller],
     log |-> w.log \o d.log]

\* lines 294-325: the writer side w is over
DesignerPhase(w, designer_needed, pid, designer_sheet, controller_sheet, fault) ==
    IF ~designer_needed THEN Results(w, NotRequiredPair(w.sheet))
    ELSE IF fault = "gate" THEN AllRaised(w.sheet, APIError, w.log)
    ELSE Results(w, DesignerSide(pid, w.sheet, designer_sheet, controller_sheet, fault))

\* lines 268-269
Needed(required) == upper(required) \in TruthyWords

\* lines 250-333, the row that getProjectRow returned
AllAt(row, pid, sh, designer_sheet, writer_sheet, controller_sheet, fault) ==
    IF row = Raised THEN AllRaised(sh, InvalidPid, <<>>)
    ELSE IF row = -1 THEN AllRaised(sh, NotFound, <<>>)
    ELSE IF PrintPidExc(pid) # NoExc THEN AllRaised(sh, InvalidPid, <<>>)
    ELSE Then(IF Needed(Cell(sh, row, "WRITER_REQUIRED"))
              THEN WriterSide(pid, sh, writer_sheet, controller_sheet, fault)
              ELSE NotRequiredPair(sh),
              LAMBDA w : DesignerPhase(w, Needed(Cell(sh, row, "DESIGNER_REQUIRED")),
                                       pid, designer_sheet, controller_sheet, fault))

assignAll(pid, sh, designer_sheet, writer_sheet, controller_sheet, fault) ==
    IF fault = "lookup" THEN AllRaised(sh, APIError, <<>>)
    ELSE Then(getProjectRow(pid, sh),
              LAMBDA row : AllAt(row, pid, sh, designer_sheet, writer_sheet,
                                 controller_sheet, fault))

(***************************************************************************)
(* assignment.py: the two batch scanners.  The value is [sheet, exc, ret,  *)
(* log].  A batch fault [at, step] makes one store call fail: step "scan"  *)
(* is the full-table fetch, any other step belongs to the at-th selected   *)
(* project.                                                                *)
(***************************************************************************)
NoFault == [at |-> 0, step |-> "none"]

\* the fault of the k-th project's assignAll
StepFault(fault, k) ==
    IF fault.at = k /\ fault.step \in AssignAllFaults THEN fault.step ELSE "none"

IsTruthy(cell) == upper(strip(cell)) \in TruthyWords

\* project_id.strip().lstrip('#') of the cell texts, worked out once
CleanPidTable == [t \in CellTexts |-> lstrip(str_strip(t), "#")]

\* the clean ids of the picked rows, in sheet row order
CleanPids(picked) == [i \in 1..Len(picked) |-> CleanPidTable[picked[i].PROJECT_ID]]

\* lines 363-378
IsUnconnectedReady(r) ==
    /\ NonBlank(r.PROJECT_ID)
    /\ IsTruthy(r.READY_TO_ASSIGN)
    /\ ~IsTruthy(r.PROJECT_CONNECTED)

UnconnectedProjects(sh) == CleanPids(SelectSeq(sh, IsUnconnectedReady))

\* lines 466-479
IsPendingDesigner(r) ==
    /\ NonBlank(r.PROJECT_ID)
    /\ IsTruthy(r.PROJECT_CONNECTED)
    /\ IsTruthy(r.DESIGNER_REQUIRED)
    /\ ~NonBlank(r.ASSIGNED_DESIGNER)

PendingCandidates(sh) == CleanPids(SelectSeq(sh, IsPendingDesigner))

\* lines 394-404: update_project_deadlines(pid, frontend_project,
\* auto_calculate=True) calls the two-parameter module function of
\* deadline_manager.py (346-348); the TypeError is caught and nothing is written
DeadlineStep(pid, sh) == sh

Event(ev, pid) == [ev |-> ev, pid |-> pid]

\* one more project done: its entry of assignment_results and its events
Recorded(acc, sh, pid, result, events) ==
    [sheet |-> sh, assignments |-> (pid :> result) @@ acc.assignments,
     log |-> acc.log \o events]

NoneDone(sh) == [sheet |-> sh, assignments |-> <<>>, log |-> <<>>]

IsError(result) == "error" \in DOMAIN result

Successful(assignments) ==
    Cardinality({p \in DOMAIN assignments : ~IsError(assignments[p])})

\* lines 424-440 and 527-540
Summary(pids, assignments) ==
    [projects_processed |-> Len(pids),
     successful_assignments |-> Successful(assignments),
     failed_assignments |-> Cardinality(DOMAIN assignments) - Successful(assignments),
     assignments |-> assignments]

\* lines 386 and 499
EmptySummary == [projects_processed |-> 0, assignments |-> <<>>]

BatchRaised(sh, exc) == [sheet |-> sh, exc |-> exc, ret |-> <<>>, log |-> <<>>]

BatchReturned(pids, done) ==
    [sheet |-> done.sheet, exc |-> NoExc,
     ret |-> IF pids = <<>> THEN EmptySummary ELSE Summary(pids, done.assignments),
     log |-> done.log]

\* lines 411-418: the project is marked connected when its row is found
Connected(row, sh) ==
    IF row < 0 THEN sh ELSE UpdateCell(sh, row, "PROJECT_CONNECTED", "YES")

\* assignAll raised for a project and the batch goes on marking it connected
AutoAssignedAlwaysMarking(a, acc, pid, markFails) ==
    Recorded(acc, Connected(getProjectRow(pid, a.sheet), a.sheet), pid,
             IF a.exc # NoExc THEN [error |-> a.exc] ELSE a.results,
             <<Event("deadline", pid), Event("assignAll", pid), Event("connected", pid)>>)

\* lines 394-422: the deadline step was tried, assignAll has returned or
\* raised for the project pid
AutoAssigned(a, acc, pid, markFails) ==
    IF a.exc # NoExc
    THEN Recorded(acc, a.sheet, pid, [error |-> a.exc],
                  <<Event("deadline", pid), Event("assignAll", pid)>>)
    ELSE IF markFails
    THEN Recorded(acc, a.sheet, pid, a.results,
                  <<Event("deadline", pid), Event("assignAll", pid)>>)
    ELSE Recorded(acc, Connected(getProjectRow(pid, a.sheet), a.sheet), pid, a.results,
                  <<Event("deadline", pid), Event("assignAll", pid),
                    Event("connected", pid)>>)

RECURSIVE AutoAssignLoop(_, _, _, _, _, _, _)
\* lines 389-422, from the k-th selected project on
AutoAssignLoop(pids, k, acc, designer_sheet, writer_sheet, controller_sheet, fault) ==
    IF k > Len(pids) THEN acc
    ELSE Then(Then(assignAll(pids[k], DeadlineStep(pids[k], acc.sheet),
                             designer_sheet, writer_sheet, controller_sheet,
                             StepFault(fault, k)),
                   LAMBDA all : AutoAssigned(all, acc, pids[k],
                                             fault.at = k /\ fault.step = "connected")),
              LAMBDA done : AutoAssignLoop(pids, k + 1, done, designer_sheet, writer_sheet,
                                           controller_sheet, fault))

\* lines 381-382: one of the ids makes formatPID raise
AnyPrintRaises(pids) == \E k \in 1..Len(pids) : PrintPidExc(pids[k]) # NoExc

\* lines 352-422, the selected ids
AutoAssignOf(pids, sh, designer_sheet, writer_sheet, controller_sheet, fault) ==
    IF AnyPrintRaises(pids) THEN BatchRaised(sh, InvalidPid)
    ELSE BatchReturned(pids, AutoAssignLoop(pids, 1, NoneDone(sh), designer_sheet,
                                            writer_sheet, controller_sheet, fault))

autoAssignUnconnectedProjects(sh, designer_sheet, writer_sheet, controller_sheet, fault) ==
    IF fault.step = "scan" THEN BatchRaised(sh, APIError)
    ELSE Then(UnconnectedProjects(sh),
              LAMBDA pids : AutoAssignOf(pids, sh, designer_sheet, writer_sheet,
                                         controller_sheet, fault))

\* lines 510-520: assignDesignerController has returned or raised
ControllerAssigned(c, acc, pid) ==
    Recorded(acc, c.sheet, pid,
             [designer |-> "Assigned",
              design_controller |-> IF c.exc = NoExc THEN "Assigned" ELSE Failed(c.exc)],
             <<Event("assignDesigner", pid), Event("assignDesignerController", pid)>>)

\* lines 506-525: assignDesigner has returned or raised for the project pid
DesignerAssigned(d, acc, pid, controller_sheet, fail) ==
    IF d.exc # NoExc
    THEN Recorded(acc, d.sheet, pid, [error |-> d.exc], <<Event("assignDesigner", pid)>>)
    ELSE ControllerAssigned(assignDesignerController(pid, d.sheet, controller_sheet, fail),
                            acc, pid)

RECURSIVE PendingLoop(_, _, _, _, _, _)
\* lines 502-525, from the k-th pending project on
PendingLoop(pids, k, acc, designer_sheet, controller_sheet, fault) ==
    IF k > Len(pids) THEN acc
    ELSE Then(Then(assignDesigner(pids[k], acc.sheet, designer_sheet,
                                  fault.at = k /\ fault.step = "designer"),
                   LAMBDA d : DesignerAssigned(d, acc, pids[k], controller_sheet,
                                  fault.at = k /\ fault.step = "design_controller")),
              LAMBDA done : PendingLoop(pids, k + 1, done, designer_sheet,
                                        controller_sheet, fault))

\* lines 483-494: the gate or the print raises for one of the candidates
ScanRaises(candidates, sh) ==
    \E k \in 1..Len(candidates) :
        \/ getProjectRow(candidates[k], sh) = Raised
        \/ PrintPidExc(candidates[k]) # NoExc

\* lines 496-540, the projects whose gate is open
PendingReady(pids, sh, designer_sheet, controller_sheet, fault) ==
    Then(PendingLoop(pids, 1, NoneDone(sh), designer_sheet, controller_sheet, fault),
         LAMBDA done : BatchReturned(pids, done))

\* lines 466-540, the candidates of the scan
PendingOf(candidates, sh, designer_sheet, controller_sheet, fault) ==
    IF ScanRaises(candidates, sh) THEN BatchRaised(sh, InvalidPid)
    ELSE Then(SelectSeq(candidates, LAMBDA p : should_contact_designer(p, sh)),
              LAMBDA pids : PendingReady(pids, sh, designer_sheet, controller_sheet,
                                         fault))

checkPendingDesignerAssignments(sh, designer_sheet, controller_sheet, fault) ==
    IF fault.step = "scan" THEN BatchRaised(sh, APIError)
    ELSE Then(PendingCandidates(sh),
              LAMBDA candidates : PendingOf(candidates, sh, designer_sheet,
                                            controller_sheet, fault))


(***************************************************************************)
(* deadline_manager.py: the deadline calculator.  A datetime is a number   *)
(* of half days, so that a deadline and the clock can differ by a fraction *)
(* of a day; timedelta(days=n) is n whole days and timedelta.days rounds   *)
(* a difference down to whole days.                                        *)
(***************************************************************************)
HalfDaysPerDay == 2

\* timedelta(days=n)
timedelta(n) == n * HalfDaysPerDay

\* (a - b).days
DaysBetween(a, b) == (a - b) \div HalfDaysPerDay

\* DeadlineConfig, lines 51-55
writing_base_days == 7
writing_qc_days == 3
design_base_days == 5
design_qc_days == 3
min_qc_days == 1

\* lines 60-64, in tenths: 0.8, 1.0, 1.2
priority_multipliers == [High |-> 8, Medium |-> 10, Low |-> 12]

\* line 95: priority_multipliers.get(priority, 1.0), in tenths
PriorityMult(priority) ==
    IF priority \in DOMAIN priority_multipliers THEN priority_multipliers[priority]
    ELSE 10

\* the product rounded to the nearest whole day
RoundedDays(base, priority) == (base * PriorityMult(priority) + 5) \div 10

\* lines 98-99: int(base * priority_mult); the float products 5.6000000000000005,
\* 4.0, 8.399999999999999 and 6.0 truncate as the exact products do
ScaledDays(base, priority) == (base * PriorityMult(priority)) \div 10

Smaller(a, b) == IF a < b THEN a ELSE b
Larger(a, b) == IF a > b THEN a ELSE b

QcDays(writing_qc, design_qc) == [writing_qc |-> writing_qc, design_qc |-> design_qc]

\* the QC split without the minimum of lines 166-167, 171 and 176
SplitQcWithoutFloor(qc_days_available, needs_writer, needs_designer) ==
    IF qc_days_available < 0
    THEN QcDays(IF needs_writer THEN min_qc_days ELSE 0,
                IF needs_designer THEN min_qc_days ELSE 0)
    ELSE IF needs_writer /\ needs_designer
    THEN QcDays(Smaller(writing_qc_days, qc_days_available \div 2),
                Smaller(design_qc_days,
                        qc_days_available
                        - Smaller(writing_qc_days, qc_days_available \div 2)))
    ELSE IF needs_writer THEN QcDays(Smaller(writing_qc_days, qc_days_available), 0)
    ELSE IF needs_designer THEN QcDays(0, Smaller(design_qc_days, qc_days_available))
    ELSE QcDays(0, 0)

\* lines 153-182, qc_days_available worked out at line 151
SplitQc(qc_days_available, needs_writer, needs_designer) ==
    IF qc_days_available < 0
    THEN QcDays(IF needs_writer THEN min_qc_days ELSE 0,
                IF needs_designer THEN min_qc_days ELSE 0)
    ELSE IF needs_writer /\ needs_designer
    THEN QcDays(Larger(Smaller(writing_qc_days, qc_days_available \div 2), min_qc_days),
                Larger(Smaller(design_qc_days,
                               qc_days_available
                               - Smaller(writing_qc_days, qc_days_available \div 2)),
                       min_qc_days))
    ELSE IF needs_writer
    THEN QcDays(Larger(Smaller(writing_qc_days, qc_days_available), min_qc_days), 0)
    ELSE IF needs_designer
    THEN QcDays(0, Larger(Smaller(design_qc_days, qc_days_available), min_qc_days))
    ELSE QcDays(0, 0)

\* the split of all the available days, the core work days not taken off
CompressFromAvailable(available_days, writing_days, design_days, needs_writer, needs_designer) ==
    SplitQc(available_days, needs_writer, needs_designer)

\* lines 144-183
compress_qc_time(available_days, writing_days, design_days, needs_writer, needs_designer) ==
    SplitQc(available_days - (writing_days + design_days), needs_writer, needs_designer)

\* lines 105 and 116
TotalDays(writing_days, qc, design_days) ==
    writing_days + qc.writing_qc + design_days + qc.design_qc

\* writing_deadline as the end of a schedule that starts total_days before the
\* project deadline
WritingStart(writing_qc_deadline, writing_days, qc, needs_writer) ==
    IF needs_writer THEN writing_qc_deadline - timedelta(qc.writing_qc + writing_days)
    ELSE writing_qc_deadline

\* lines 122 and 125-126
WritingDeadline(writing_qc_deadline, writing_days, qc, needs_writer) ==
    IF needs_writer THEN writing_qc_deadline - timedelta(qc.writing_qc)
    ELSE writing_qc_deadline

\* the design deadline set back by the writing QC days
DesignDeadlineByWritingQc(project_deadline, qc, needs_designer) ==
    IF needs_designer THEN project_deadline - timedelta(qc.writing_qc) ELSE project_deadline

\* lines 119-120
DesignDeadline(project_deadline, qc, needs_designer) ==
    IF needs_designer THEN project_deadline - timedelta(qc.design_qc) ELSE project_deadline

\* line 121
WritingQcDeadline(design_deadline, design_days, needs_designer) ==
    IF needs_designer THEN design_deadline - timedelta(design_days) ELSE design_deadline

\* lines 119-139: PhaseDeadlines
PhaseDeadlines(project_deadline, writing_days, qc, design_days, needs_writer, needs_designer) ==
    [project_deadline |-> project_deadline,
     writing_deadline |->
         WritingDeadline(WritingQcDeadline(DesignDeadline(project_deadline, qc,
                                                          needs_designer),
                                           design_days, needs_designer),
                         writing_days, qc, needs_writer),
     writing_qc_deadline |->
         WritingQcDeadline(DesignDeadline(project_deadline, qc, needs_designer),
                           design_days, needs_designer),
     design_deadline |-> DesignDeadline(project_deadline, qc, needs_designer),
     design_qc_deadline |-> project_deadline,
     writing_days |-> writing_days,
     writing_qc_days |-> qc.writing_qc,
     design_days |-> design_days,
     design_qc_days |-> qc.design_qc,
     total_days |-> TotalDays(writing_days, qc, design_days)]

\* lines 101-116: the fixed QC days, compressed when the days do not suffice
Allotted(available_days, writing_days, design_days, needs_writer, needs_designer) ==
    IF available_days < TotalDays(writing_days,
                                  QcDays(IF needs_writer THEN writing_qc_days ELSE 0,
                                         IF needs_designer THEN design_qc_days ELSE 0),
                                  design_days)
    THEN compress_qc_time(available_days, writing_days, design_days, needs_writer,
                          needs_designer)
    ELSE QcDays(IF needs_writer THEN writing_qc_days ELSE 0,
                IF needs_designer THEN design_qc_days ELSE 0)

\* lines 98-99
BaseDays(base, priority, needed) == IF needed THEN ScaledDays(base, priority) ELSE 0

\* lines 75-142; now is what datetime.now() yields during the call
calculate_phase_deadlines(project_deadline, priority, needs_writer, needs_designer, now) ==
    PhaseDeadlines(project_deadline,
                   BaseDays(writing_base_days, priority, needs_writer),
                   Allotted(DaysBetween(project_deadline, now),
                            BaseDays(writing_base_days, priority, needs_writer),
                            BaseDays(design_base_days, priority, needs_designer),
                            needs_writer, needs_designer),
                   BaseDays(design_base_days, priority, needs_designer),
                   needs_writer, needs_designer)

(***************************************************************************)
(* deadline_manager.py: the deadline write-back.  A date is [y, m, d]; the *)
(* calendar covers the years FirstYear..LastYear.                          *)
(***************************************************************************)
FirstYear == 2024
LastYear == 2026

IsLeap(y) == (y % 4 = 0 /\ y % 100 # 0) \/ y % 400 = 0

MonthDays(y, m) ==
    IF m = 2 THEN (IF IsLeap(y) THEN 29 ELSE 28)
    ELSE IF m \in {4, 6, 9, 11} THEN 30
    ELSE 31

YearDays(y) == IF IsLeap(y) THEN 366 ELSE 365

RECURSIVE DaysBeforeYear(_)
DaysBeforeYear(y) == IF y <= FirstYear THEN 0 ELSE DaysBeforeYear(y - 1) + YearDays(y - 1)

RECURSIVE DaysBeforeMonth(_, _)
DaysBeforeMonth(y, m) == IF m <= 1 THEN 0 ELSE DaysBeforeMonth(y, m - 1) + MonthDays(y, m - 1)

\* the day number of a date, counted from the first day of FirstYear
Ordinal(date) == DaysBeforeYear(date.y) + DaysBeforeMonth(date.y, date.m) + date.d - 1

Dates == {date \in [y : FirstYear..LastYear, m : 1..12, d : 1..31] : date.d <= MonthDays(date.y, date.m)}

\* the date of a day number
DateOf(n) == CHOOSE date \in Dates : Ordinal(date) = n

\* strptime raised ValueError
NoDate == [y |-> 0, m |-> 0, d |-> 0]

\* the directives %Y (four digits), %m and %d (one or two digits)
IsField(text, widths) == isdigit(text) /\ Len(text) \in widths

DateFrom(y, m, d) ==
    IF /\ IsField(y, {4}) /\ IsField(m, {1, 2}) /\ IsField(d, {1, 2})
       /\ [y |-> NumberOf(y), m |-> NumberOf(m), d |-> NumberOf(d)] \in Dates
    THEN [y |-> NumberOf(y), m |-> NumberOf(m), d |-> NumberOf(d)]
    ELSE NoDate

\* datetime.strptime(text, "%Y-%m-%d")
ParsedYmd(parts) == IF Len(parts) = 3 THEN DateFrom(parts[1], parts[2], parts[3]) ELSE NoDate

\* datetime.strptime(text, "%m/%d/%Y")
ParsedMdy(parts) == IF Len(parts) = 3 THEN DateFrom(parts[3], parts[1], parts[2]) ELSE NoDate

\* lines 256-264: the first format, then the second, NoDate when both raise
ParseDeadline(text) ==
    IF ParsedYmd(split(str_strip(text), "-")) # NoDate
    THEN ParsedYmd(split(str_strip(text), "-"))
    ELSE ParsedMdy(split(str_strip(text), "/"))

\* strftime("%Y-%m-%d")
FormatDate(date) ==
    ZeroPad(NatToText(date.y), 4) \o "-" \o ZeroPad(NatToText(date.m), 2) \o "-"
    \o ZeroPad(NatToText(date.d), 2)

\* a datetime at midnight of a date, in half days, and the date of a datetime
Midnight(date) == timedelta(Ordinal(date))
DayOf(time) == DateOf(time \div HalfDaysPerDay)

\* lines 267-268
IsYes(cell) == cell # "" /\ str_upper(cell) = "YES"

\* lines 278-294: the two cells of the batch update
DeadlineCells(sh, row, deadlines, needs_writer, needs_designer) ==
    [sh EXCEPT ![row - HeaderRows].WRITER_DEADLINE =
                   IF needs_writer THEN FormatDate(DayOf(deadlines.writing_deadline)) ELSE @,
               ![row - HeaderRows].DESIGN_DEADLINE =
                   IF needs_designer THEN FormatDate(DayOf(deadlines.design_deadline)) ELSE @]

Updated(sh, ret) == [sheet |-> sh, ret |-> ret]

\* the write-back that writes the cells although the deadline was not parsed
WriteBackUnparsed(sh, row, deadline, priority, needs_writer, needs_designer, now) ==
    IF ~(needs_writer \/ needs_designer) THEN Updated(sh, "None")
    ELSE Updated(DeadlineCells(sh, row,
                               calculate_phase_deadlines(
                                   IF deadline = NoDate THEN now ELSE Midnight(deadline),
                                   priority, needs_writer, needs_designer, now),
                               needs_writer, needs_designer),
                 "True")

\* lines 256-297, the deadline text parsed
WriteBack(sh, row, deadline, priority, needs_writer, needs_designer, now) ==
    IF deadline = NoDate THEN Updated(sh, "False")
    ELSE IF ~(needs_writer \/ needs_designer) THEN Updated(sh, "None")
    ELSE Updated(DeadlineCells(sh, row,
                               calculate_phase_deadlines(Midnight(deadline), priority,
                                                         needs_writer, needs_designer, now),
                               needs_writer, needs_designer),
                 "True")

\* lines 241-254, the row found or not
UpdateAt(sh, row, auto_calculate, now) ==
    IF row < 0 THEN Updated(sh, "False")
    ELSE IF Cell(sh, row, "PROJECT_DEADLINE") = "" \/ ~auto_calculate
    THEN Updated(sh, "False")
    ELSE WriteBack(sh, row, ParseDeadline(Cell(sh, row, "PROJECT_DEADLINE")),
                   IF Cell(sh, row, "PRIORITY") = "" THEN "Medium"
                   ELSE Cell(sh, row, "PRIORITY"),
                   IsYes(Cell(sh, row, "WRITER_REQUIRED")),
                   IsYes(Cell(sh, row, "DESIGNER_REQUIRED")), now)

\* DeadlineManager.update_project_deadlines, lines 231-299: every exception
\* is caught at 296-298 (getProjectRow raising for an id formatPID rejects)
update_project_deadlines(project_id, sh, auto_calculate, now) ==
    UpdateAt(sh, getProjectRow(project_id, sh), auto_calculate, now)

(***************************************************************************)
(* deadline_manager.py: the phase of a project.                            *)
(***************************************************************************)
\* a project row with its writer-done, design-done and design-QC-exit dates
\* and its project-done flag
PhaseRow(base, writer_done, writer_qc_done, design_done, design_qc_done, project_done) ==
    [base EXCEPT !.WRITER_QC_EXIT_DATE = writer_qc_done]
    @@ [WRITER_DONE_DATE |-> writer_done, DESIGN_DONE_DATE |-> design_done,
        DESIGN_QC_EXIT_DATE |-> design_qc_done, PROJECT_DONE |-> project_done]

DoneTexts == {"", "YES", "yes", "No", " YES"}

PhaseRows ==
    { PhaseRow(base, wd, wq, dd, dq, pd) :
          base \in {r \in FirstRows : r.PRIORITY \in {"High", "Low"}},
          wd \in MarkerTexts, wq \in MarkerTexts, dd \in MarkerTexts, dq \in MarkerTexts,
          pd \in DoneTexts }

PhaseSheets == {<<r>> : r \in PhaseRows}

\* ProjectPhase, lines 21-27
ProjectPhase ==
    [WRITING |-> "writing", WRITING_QC |-> "writing_qc", DESIGN |-> "design",
     DESIGN_QC |-> "design_qc", COMPLETE |-> "complete"]

\* the phase read from the writing markers before the design markers
PhaseWritingFirst(project_done, design_qc_done, design_done, writer_qc_done, writer_done) ==
    IF project_done # "" /\ str_upper(project_done) = "YES" THEN ProjectPhase.COMPLETE
    ELSE IF writer_done # "" /\ writer_qc_done = "" THEN ProjectPhase.WRITING_QC
    ELSE IF writer_qc_done # "" /\ design_done = "" THEN ProjectPhase.DESIGN
    ELSE IF design_done # "" /\ design_qc_done = "" THEN ProjectPhase.DESIGN_QC
    ELSE IF design_qc_done # "" THEN ProjectPhase.COMPLETE
    ELSE ProjectPhase.WRITING

\* lines 199-211
PhaseOf(project_done, design_qc_done, design_done, writer_qc_done, writer_done) ==
    IF project_done # "" /\ str_upper(project_done) = "YES" THEN ProjectPhase.COMPLETE
    ELSE IF design_qc_done # "" THEN ProjectPhase.COMPLETE
    ELSE IF design_done # "" THEN ProjectPhase.DESIGN_QC
    ELSE IF writer_qc_done # "" THEN ProjectPhase.DESIGN
    ELSE IF writer_done # "" THEN ProjectPhase.WRITING_QC
    ELSE ProjectPhase.WRITING

Returned(value) == [exc |-> NoExc, ret |-> value]
RaisedWith(exc) == [exc |-> exc, ret |-> <<>>]

\* lines 188-197
PhaseAt(sh, row) ==
    IF row = Raised THEN RaisedWith(InvalidPid)
    ELSE IF row = -1 THEN RaisedWith(NotFound)
    ELSE Returned(PhaseOf(Cell(sh, row, "PROJECT_DONE"), Cell(sh, row, "DESIGN_QC_EXIT_DATE"),
                          Cell(sh, row, "DESIGN_DONE_DATE"),
                          Cell(sh, row, "WRITER_QC_EXIT_DATE"),
                          Cell(sh, row, "WRITER_DONE_DATE")))

\* DeadlineManager.get_current_phase, lines 184-211
get_current_phase(project_id, sh) == PhaseAt(sh, getProjectRow(project_id, sh))

(***************************************************************************)
(* Candidate rows for the rankers, each with the KPI and the number of     *)
(* open tasks its cells stand for (kpi -1: the cell is not a number).      *)
(***************************************************************************)
Case(row, kpi, open) == [row |-> row, kpi |-> kpi, open |-> open]

WriterCases ==
    { Case(WriterRow("Sam", "Science", "", "", "8"), 8, 0),
      Case(WriterRow("Gus", "ANY", "", "", "10"), 10, 0),
      Case(WriterRow("Sue", "SCIENCE ", "#000004", "#000004, #000003", "9"), 9, 0),
      Case(WriterRow("Ned", "Science", "#000004, #000004,#000006", "#000006", ""), 0, 1),
      Case(WriterRow("Sam", "do not assign", "", "", "7"), 7, 0),
      Case(Nameless, 10, 0),
      Case(BadKpi, -1, 0) }

DesignerCases ==
    { Case(DesignerRow("Ada", "Adobe", "", "", "5", "YES"), 5, 0),
      Case(DesignerRow("Fi", " Figma ", "#000004", "", "9", "yes"), 9, 1),
      Case(DesignerRow("Cal", "Canva", "#000004, #000005", "#000004, #000005", "6", "No"), 6, 0),
      Case(DesignerRow("Pru", "ProCreate", "", "", "8", ""), 8, 0),
      Case(DesignerRow("Sky", "Sketch", "", "", "9", "Y"), 9, 0),
      Case(DesignerRow("Val", "Variety", "", "", "10", "NO"), 10, 0),
      Case(DesignerRow("Oz", "Other", "", "", "10", "NO"), 10, 0),
      Case(DesignerRow("Gil", "Gimp", "", "", "10", "NO"), 10, 0),
      Case(DesignerRow("Al", "adobe", "#000007,#000008", "#000009", "", "YES"), 0, 2),
      Case(DesignerRow(" ", "Adobe", "", "", "10", "YES"), 10, 0),
      Case(DesignerRow("Zoe", "Adobe", "", "", "ten", "YES"), -1, 0) }

ControllerCases ==
    { Case(ControllerRow("Wes", "Writing", "7", "", ""), 7, 0),
      Case(ControllerRow("Wyn", "writing", "9", "#000004", "#000004, #000001"), 9, 1),
      Case(ControllerRow("Dot", " DESIGN ", "8", "#000004, #000004", ""), 8, 2),
      Case(ControllerRow("Bob", "Both", "5", "", ""), 5, 0),
      Case(ControllerRow("Ani", "any", "", "#000004", ""), 0, 1),
      Case(ControllerRow("", "Writing", "10", "", ""), 10, 0),
      Case(ControllerRow("Zac", "Design", "8,5", "", ""), -1, 0) }

\* the controllers of the candidate pools
PoolControllerCases == {Case(Cy, 5, 1), Case(Col, 6, 0), Case(Kim, 4, 0)}

\* the designers that share sheets
DesignerSheetCases == {c \in DesignerCases : c.row.NAME \in {"Ada", "Fi", "Sky", "Val", " ", "Zoe"}}

\* the rows of a set of cases
RowsOf(cases) == {c.row : c \in cases}

\* the sheets of at most MaxRows different rows
MaxRows == 3

RECURSIVE SheetsOf(_, _)
SheetsOf(rows, n) ==
    IF n = 0 THEN {<<>>}
    ELSE SheetsOf(rows, n - 1)
         \cup {Append(s, r) : s \in {t \in SheetsOf(rows, n - 1) : Len(t) = n - 1},
                              r \in rows}

Distinct(s) == \A i, j \in DOMAIN s : i # j => s[i] # s[j]

RankerSheets(cases) == {s \in SheetsOf(RowsOf(cases), MaxRows) : Distinct(s)}
(***************************************************************************)
(* bot/views.py: the decline button of an assignment message.  The value   *)
(* of each operator is the project sheet as the handler leaves it; every   *)
(* exception is caught and logged by the handler it is raised in.          *)
(***************************************************************************)
RoleTypes == {"designer", "writer", "writer_controller", "design_controller"}

\* lines 123-132: the column of a role type
RoleColumn ==
    [designer |-> "ASSIGNED_DESIGNER", writer |-> "ASSIGNED_WRITER",
     writer_controller |-> "WRITER_QC_CONTROLLER",
     design_controller |-> "DESIGN_QC_CONTROLLER"]

\* lines 118-121 and 134-140: the row that getProjectRow returned
ClearedAt(row, role_type, sh) ==
    IF row < 0 THEN sh ELSE UpdateCell(sh, row, RoleColumn[role_type], "")

\* lines 113-140
clear_assignment(project_id, role_type, sh) ==
    Then(getProjectRow(project_id, sh), LAMBDA row : ClearedAt(row, role_type, sh))

\* the second of two assign calls in a row: it runs if the first returned
AndThen(first, second(_)) ==
    IF first.exc # NoExc THEN first.sheet ELSE Then(first.sheet, LAMBDA sh : second(sh).sheet)

\* lines 92-106: the assign calls of a role type, on the cleared sheet
Reassigned(project_id, role_type, sh, designer_sheet, writer_sheet, controller_sheet) ==
    CASE role_type = "designer" ->
             AndThen(assignDesigner(project_id, sh, designer_sheet, FALSE),
                     LAMBDA s : assignDesignerController(project_id, s, controller_sheet, FALSE))
      [] role_type = "writer" ->
             AndThen(assignWriter(project_id, sh, writer_sheet, FALSE),
                     LAMBDA s : assignWriterController(project_id, s, controller_sheet, FALSE))
      [] role_type = "writer_controller" ->
             assignWriterController(project_id, sh, controller_sheet, FALSE).sheet
      [] role_type = "design_controller" ->
             assignDesignerController(project_id, sh, controller_sheet, FALSE).sheet

\* lines 78-111
handle_reassignment(project_id, role_type, sh, designer_sheet, writer_sheet, controller_sheet) ==
    Then(clear_assignment(project_id, role_type, sh),
         LAMBDA cleared : Reassigned(project_id, role_type, cleared, designer_sheet,
                                     writer_sheet, controller_sheet))
(***************************************************************************)
(* bot/utils.py: the thread registry.  The file thread_db.json holds one   *)
(* JSON object; load_db and save_db read and write it whole, and a JSON     *)
(* object keeps its keys, all of them texts, in the order they were        *)
(* inserted.  The registry is the sequence of its items, each with its key *)
(* thread_id; an Optional is a sequence of at most one value.              *)
(***************************************************************************)
Info(project_id, registered_by, timestamp) ==
    [project_id |-> project_id, registered_by |-> registered_by, timestamp |-> timestamp]

Item(thread_id, info) == [thread_id |-> thread_id, info |-> info]

\* the positions of the key thread_id, at most one
Positions(thread_id, d) == {i \in DOMAIN d : d[i].thread_id = thread_id}

\* db[thread_id] = info: a key the object has keeps its place
SetItem(d, thread_id, info) ==
    IF Positions(thread_id, d) = {} THEN Append(d, Item(thread_id, info))
    ELSE [i \in DOMAIN d |-> IF d[i].thread_id = thread_id THEN Item(thread_id, info) ELSE d[i]]

\* del db[thread_id]
DelItem(d, thread_id) == SelectSeq(d, LAMBDA item : item.thread_id # thread_id)

\* a registration that starts the file anew
RegisterAlone(thread_id, project_id, registered_by, timestamp, d) ==
    <<Item(thread_id, Info(project_id, registered_by, timestamp))>>

\* lines 47-55: the registry as save_db leaves it
register_thread(thread_id, project_id, registered_by, timestamp, d) ==
    SetItem(d, thread_id, Info(project_id, registered_by, timestamp))

\* lines 57-64
unregister_thread(thread_id, d) ==
    IF Positions(thread_id, d) # {} THEN [db |-> DelItem(d, thread_id), ret |-> TRUE]
    ELSE [db |-> d, ret |-> FALSE]

\* lines 66-69: db.get(thread_id)
get_thread_project(thread_id, d) ==
    IF Positions(thread_id, d) = {} THEN <<>>
    ELSE <<d[CHOOSE i \in Positions(thread_id, d) : TRUE].info>>

\* lines 71-77: the first item of the project
find_project_thread(project_id, d) ==
    IF \A i \in DOMAIN d : d[i].info.project_id # project_id THEN <<>>
    ELSE <<d[Least({i \in DOMAIN d : d[i].info.project_id = project_id})].thread_id>>

(***************************************************************************)
(* bot/qc_main.py: auto_fail_expired_threads.  The scan loads the registry *)
(* (line 74), awaits the Discord calls for every thread that is 30 days    *)
(* old or more (lines 87-96), deletes these threads from its copy and      *)
(* saves the copy (lines 109-112).  The bot runs on one event loop: other  *)
(* handlers run only while the scan is suspended in an await.              *)
(***************************************************************************)
ExpiryDays == 30

\* lines 79-82: the threads of the copy that are over the age
Expired(copy, today) ==
    SelectSeq(copy, LAMBDA item : today - item.info.timestamp >= ExpiryDays)

\* lines 109-110
WithoutExpired(copy, today) ==
    SelectSeq(copy, LAMBDA item : today - item.info.timestamp < ExpiryDays)
(***************************************************************************)
(* bot/timers.py and bot/notifications.py: the QC results timer.  A run    *)
(* reads the project sheet, collects one notification per PASS or FAIL     *)
(* result cell and hands the list to send_qc_result_notifications, which   *)
(* messages the assignee and the QC controller of each.                    *)
(***************************************************************************)
QcResults == {"PASS", "FAIL"}

Notification(project_id, type, result, assignee, qc_controller) ==
    [project_id |-> project_id, type |-> type, result |-> result, assignee |-> assignee,
     qc_controller |-> qc_controller]

\* lines 190-201 and 203-214: the notification of one result cell, if any
ResultOf(r, type, result_col, assignee_col, controller_col) ==
    IF upper(strip(r[result_col])) \in QcResults
    THEN <<Notification(CleanPidTable[r.PROJECT_ID], type, upper(strip(r[result_col])),
                        strip(r[assignee_col]), strip(r[controller_col]))>>
    ELSE <<>>

\* lines 179-214: the notifications of one row
RowResults(r) ==
    IF strip(r.PROJECT_ID) = "" THEN <<>>
    ELSE ResultOf(r, "writer", "WRITER_QC_RESULT", "ASSIGNED_WRITER", "WRITER_QC_CONTROLLER")
         \o ResultOf(r, "designer", "DESIGN_QC_RESULT", "ASSIGNED_DESIGNER",
                     "DESIGN_QC_CONTROLLER")

RECURSIVE Collected(_, _)
\* lines 176-214: qc_notifications, from the k-th row on
Collected(sh, k) ==
    IF k > Len(sh) THEN <<>> ELSE RowResults(sh[k]) \o Collected(sh, k + 1)

\* timers.py 157-227: what one run collects; the run keeps no record of
\* what an earlier run has sent
check_qc_results(sh) == Collected(sh, 1)

Message(to, role, n) == [to |-> to, role |-> role, about |-> n]

\* notifications.py 183-194: the messages of one notification
MessagesOf(n) ==
    (IF n.assignee # "" THEN <<Message(n.assignee, "assignee", n)>> ELSE <<>>)
    \o (IF n.qc_controller # "" THEN <<Message(n.qc_controller, "qc_controller", n)>>
        ELSE <<>>)

RECURSIVE send_qc_result_notifications(_)
\* notifications.py 180-198
send_qc_result_notifications(qc_notifications) ==
    IF qc_notifications = <<>> THEN <<>>
    ELSE MessagesOf(Head(qc_notifications))
         \o send_qc_result_notifications(Tail(qc_notifications))
(***************************************************************************)
(* The state machine.  A run makes at most MaxCalls engine calls; between  *)
(* the calls people edit the candidate sheets and record a passed writing  *)
(* QC.                                                                     *)
(***************************************************************************)
MaxCalls == 2

NoCall ==
    [op |-> "none", pid |-> "", pids |-> <<>>, fault |-> NoFault, exc |-> NoExc,
     ret |-> <<>>, log |-> <<>>, args |-> <<>>]

\* the candidate sheets people switch between: all filled, all empty, and
\* writers that are left out of every ranking beside one controller for both
\* specialities
CandidatePools ==
    { [writers |-> <<Ann, Bob>>, designers |-> <<Dan, Dee>>, controllers |-> <<Cy, Col>>],
      [writers |-> <<>>, designers |-> <<>>, controllers |-> <<>>],
      [writers |-> <<Nameless, BadKpi>>, designers |-> <<Dan, Dee>>,
       controllers |-> <<Kim>>] }

\* the two invocations that may be in flight at once (timers.py 67 and 105,
\* sheets_api.py 175), and an invocation that is not running
RunIds == {1, 2}

Idle == [op |-> "idle", pc |-> "idle", pids |-> <<>>, slots |-> <<>>, key |-> "", chosen |-> ""]

NoRuns == [r \in RunIds |-> Idle]

\* no thread is registered
NoThreads == <<>>

\* the scan of auto_fail_expired_threads sleeps
Asleep == [pc |-> "sleep", db |-> NoThreads]

\* the bot has just been started on an empty registry
BotIdle ==
    /\ db = NoThreads
    /\ scan = Asleep
    /\ sent = <<>>
    /\ clock = 0

Init ==
    /\ sheet \in InitSheets
    /\ \E pool \in CandidatePools :
           /\ writers = pool.writers
           /\ designers = pool.designers
           /\ controllers = pool.controllers
    /\ last = NoCall
    /\ calls = 0
    /\ runs = NoRuns
    /\ BotIdle

(***************************************************************************)
(* The engine's entry points, one call each.                               *)
(***************************************************************************)
\* a call on one project
Called(op, pid, step, exc, ret, log) ==
    [op |-> op, pid |-> pid, pids |-> <<>>, fault |-> [at |-> 0, step |-> step],
     exc |-> exc, ret |-> ret, log |-> log, args |-> <<>>]

\* a batch run over the projects pids
Ran(op, pids, fault, exc, ret, log) ==
    [op |-> op, pid |-> "", pids |-> pids, fault |-> fault, exc |-> exc, ret |-> ret,
     log |-> log, args |-> <<>>]

\* one more engine call, the candidate sheets are only read
Counted ==
    /\ calls < MaxCalls
    /\ calls' = calls + 1
    /\ UNCHANGED <<writers, designers, controllers, runs, db, scan, sent, clock>>

AssignWriter ==
    \E pid \in SinglePidInputs :
        LET out == assignWriter(pid, sheet, writers, FALSE)
        IN  /\ Counted
            /\ sheet' = out.sheet
            /\ last' = Called("assignWriter", pid, "none", out.exc, <<>>, <<>>)

AssignDesigner ==
    \E pid \in SinglePidInputs :
        LET out == assignDesigner(pid, sheet, designers, FALSE)
        IN  /\ Counted
            /\ sheet' = out.sheet
            /\ last' = Called("assignDesigner", pid, "none", out.exc, <<>>, <<>>)

AssignWriterController ==
    \E pid \in SinglePidInputs :
        LET out == assignWriterController(pid, sheet, controllers, FALSE)
        IN  /\ Counted
            /\ sheet' = out.sheet
            /\ last' = Called("assignWriterController", pid, "none", out.exc, <<>>, <<>>)

AssignDesignerController ==
    \E pid \in SinglePidInputs :
        LET out == assignDesignerController(pid, sheet, controllers, FALSE)
        IN  /\ Counted
            /\ sheet' = out.sheet
            /\ last' = Called("assignDesignerController", pid, "none", out.exc, <<>>, <<>>)

AssignAll ==
    \E pid \in PidInputs, fault \in AssignAllFaults :
        LET out == assignAll(pid, sheet, designers, writers, controllers, fault)
        IN  /\ Counted
            /\ sheet' = out.sheet
            /\ last' = Called("assignAll", pid, fault, out.exc, out.results, out.log)

\* the store faults of one run of autoAssignUnconnectedProjects
AutoAssignFaults(n) ==
    {NoFault, [at |-> 0, step |-> "scan"]}
    \cup [at : 1..n, step : {"lookup", "writer_controller", "gate", "connected"}]

AutoAssign ==
    \E fault \in AutoAssignFaults(Len(UnconnectedProjects(sheet))) :
        LET out == autoAssignUnconnectedProjects(sheet, designers, writers,
                                                 controllers, fault)
        IN  /\ Counted
            /\ sheet' = out.sheet
            /\ last' = Ran("autoAssignUnconnectedProjects", UnconnectedProjects(sheet),
                           fault, out.exc, out.ret, out.log)

\* the store faults of one run of checkPendingDesignerAssignments
PendingFaults(n) ==
    {NoFault, [at |-> 0, step |-> "scan"]}
    \cup [at : 1..n, step : {"designer", "design_controller"}]

CheckPending ==
    \E fault \in PendingFaults(Len(PendingCandidates(sheet))) :
        LET out == checkPendingDesignerAssignments(sheet, designers, controllers, fault)
        IN  /\ Counted
            /\ sheet' = out.sheet
            /\ last' = Ran("checkPendingDesignerAssignments", PendingCandidates(sheet),
                           fault, out.exc, out.ret, out.log)

(***************************************************************************)
(* The environment: people edit the sheets between calls.                  *)
(***************************************************************************)
EditCandidates ==
    \E pool \in CandidatePools :
        /\ writers' = pool.writers
        /\ designers' = pool.designers
        /\ controllers' = pool.controllers
        /\ last' = NoCall
        /\ UNCHANGED <<sheet, calls, runs, db, scan, sent, clock>>

\* the writing QC of a project that has a writer is recorded as passed
CompleteWritingQc ==
    \E i \in 1..Len(sheet) :
        /\ NonBlank(sheet[i].ASSIGNED_WRITER)
        /\ ~NonBlank(sheet[i].WRITER_QC_EXIT_DATE)
        /\ sheet' = [sheet EXCEPT ![i].WRITER_QC_EXIT_DATE = QcExitDate]
        /\ last' = NoCall
        /\ UNCHANGED <<writers, designers, controllers, calls, runs, db, scan, sent, clock>>

Next ==
    \/ AssignWriter
    \/ AssignDesigner
    \/ AssignWriterController
    \/ AssignDesignerController
    \/ AssignAll
    \/ AutoAssign
    \/ CheckPending
    \/ EditCandidates
    \/ CompleteWritingQc

Spec == Init /\ [][Next]_vars


(***************************************************************************)
(* The phase gate on its own: should_contact_designer is asked about a     *)
(* one-project sheet, and people change the project's writer-QC-exit cell. *)
(***************************************************************************)
GatePids == {"#000001", "000001", "2", "#000009"}

GateInit ==
    /\ sheet \in GateSheets
    /\ sheet[1].WRITER_QC_EXIT_DATE = ""
    /\ writers = <<>>
    /\ designers = <<>>
    /\ controllers = <<>>
    /\ last = NoCall
    /\ calls = 0
    /\ runs = NoRuns
    /\ BotIdle

ShouldContactDesigner ==
    \E pid \in GatePids :
        /\ last' = Called("should_contact_designer", pid, "none", NoExc,
                          [contact |-> should_contact_designer(pid, sheet)], <<>>)
        /\ UNCHANGED <<sheet, writers, designers, controllers, calls, runs, db, scan, sent, clock>>

EditMarker ==
    \E marker \in MarkerTexts :
        /\ sheet' = [sheet EXCEPT ![1].WRITER_QC_EXIT_DATE = marker]
        /\ last' = NoCall
        /\ UNCHANGED <<writers, designers, controllers, calls, runs, db, scan, sent, clock>>

GateNext == ShouldContactDesigner \/ EditMarker

GateSpec == GateInit /\ [][GateNext]_vars

(***************************************************************************)
(* The designer timer of bot/timers.py: check_designer_assignments runs    *)
(* every ten minutes for as long as the bot is up and catches whatever its *)
(* run raises.  Meanwhile writing QC passes and designers are taken on.    *)
(***************************************************************************)
TimerInit ==
    /\ sheet \in PostponedSheets
    /\ writers = <<Ann, Bob>>
    /\ designers \in DesignerTables
    /\ controllers \in ControllerTables
    /\ last = NoCall
    /\ calls = 0
    /\ runs = NoRuns
    /\ BotIdle

\* one run of the timer, the store failing as fault says
TimerRun(fault) ==
    \E out \in {checkPendingDesignerAssignments(sheet, designers, controllers, fault)} :
        /\ sheet' = out.sheet
        /\ last' = Ran("check_designer_assignments", PendingCandidates(sheet), fault,
                       out.exc, out.ret, out.log)
        /\ UNCHANGED <<writers, designers, controllers, calls, runs, db, scan, sent, clock>>

CheckDesignerAssignments ==
    \E fault \in PendingFaults(Len(PendingCandidates(sheet))) : TimerRun(fault)

HireDesigners ==
    /\ designers = <<>>
    /\ designers' = <<Dan, Dee>>
    /\ last' = NoCall
    /\ UNCHANGED <<sheet, writers, controllers, calls, runs, db, scan, sent, clock>>

TimerNext == CheckDesignerAssignments \/ CompleteWritingQc \/ HireDesigners

\* the loop keeps running, and the store does not fail in every run
TimerSpec == TimerInit /\ [][TimerNext]_vars /\ WF_vars(TimerRun(NoFault))

(***************************************************************************)
(* A crash in the middle of assignAll: the process dies after the writer   *)
(* cell was written (assignment.py 279-280) and before the writer-QC       *)
(* controller step; the batch runs again after the restart.                *)
(***************************************************************************)
Crashed == "process killed"

AssignAllCrash ==
    \E pid \in PidInputs :
        LET row == getProjectRow(pid, sheet)
            out == assignWriter(pid, sheet, writers, FALSE)
        IN  /\ Counted
            /\ row > 0
            /\ Needed(Cell(sheet, row, "WRITER_REQUIRED"))
            /\ out.sheet # sheet
            /\ sheet' = out.sheet
            /\ last' = Called("assignAll", pid, "none", Crashed, <<>>, <<"assignWriter">>)

CrashNext == AssignAllCrash \/ AutoAssign \/ EditCandidates

CrashSpec == Init /\ [][CrashNext]_vars

(***************************************************************************)
(* Two batch invocations at once.  Nothing in assignment.py takes a lock,  *)
(* so the store calls of two invocations interleave: every action below is *)
(* the work of one invocation up to and including its next store call (a   *)
(* cell read, a table fetch, a cell write).  An invocation keeps what it   *)
(* read in its locals: the selected ids, the steps left for the current    *)
(* project, the ranking key and the chosen name.                           *)
(***************************************************************************)
Gate == "should_contact_designer"

WriterSteps == <<"ASSIGNED_WRITER", "WRITER_QC_CONTROLLER">>
DesignerSteps == <<"ASSIGNED_DESIGNER", "DESIGN_QC_CONTROLLER">>

\* assignAll 262-292: the role steps the two required cells ask for
StepsOfAssignAll(row, sh) ==
    (IF Needed(Cell(sh, row, "WRITER_REQUIRED")) THEN WriterSteps ELSE <<>>)
    \o (IF Needed(Cell(sh, row, "DESIGNER_REQUIRED")) THEN <<Gate>> \o DesignerSteps
        ELSE <<>>)

\* the cell an assign function reads after its guard: the topic (107), the
\* priority (79); the controller functions rank by a fixed speciality
KeyOf(slot, row, sh) ==
    IF slot = "ASSIGNED_WRITER" THEN strip(Cell(sh, row, "WRITER_TOPIC"))
    ELSE IF slot = "ASSIGNED_DESIGNER" THEN PriorityOf(Cell(sh, row, "PRIORITY"))
    ELSE IF slot = "WRITER_QC_CONTROLLER" THEN "Writing"
    ELSE "Design"

\* lines 82, 115, 192, 217: the ranking an assign function fetches
RankedFor(slot, key) ==
    IF slot = "ASSIGNED_WRITER" THEN RankedWriters(key, writers)
    ELSE IF slot = "ASSIGNED_DESIGNER" THEN RankedDesigners(key, designers)
    ELSE RankedControllers(key, controllers)

\* invocation r goes on with the locals new, the project sheet becomes sh
RunStep(r, new, sh) ==
    /\ runs' = [runs EXCEPT ![r] = new]
    /\ sheet' = sh
    /\ UNCHANGED <<writers, designers, controllers, last, db, scan, sent, clock>>

\* lines 352-386: the full-table fetch and the selection; the listing loop
\* raising ends the invocation
StartAutoAssign(r) ==
    LET pids == UnconnectedProjects(sheet)
    IN  /\ runs[r].pc = "idle"
        /\ calls < MaxCalls
        /\ calls' = calls + 1
        /\ RunStep(r, [Idle EXCEPT !.op = "autoAssignUnconnectedProjects",
                                   !.pc = "project",
                                   !.pids = IF AnyPrintRaises(pids) THEN <<>> ELSE pids],
                   sheet)

\* lines 466-499: the fetch, the selection and the gate of every candidate
StartCheckPending(r) ==
    LET candidates == PendingCandidates(sheet)
    IN  /\ runs[r].pc = "idle"
        /\ calls < MaxCalls
        /\ calls' = calls + 1
        /\ RunStep(r, [Idle EXCEPT !.op = "checkPendingDesignerAssignments",
                                   !.pc = "project",
                                   !.pids = IF ScanRaises(candidates, sheet) THEN <<>>
                                            ELSE SelectSeq(candidates,
                                                     LAMBDA p : should_contact_designer(p, sheet))],
                   sheet)

\* lines 389 and 502: the next selected project, or the return; assignAll
\* 249-265 reads the two required cells of the row
NextProject(r) ==
    LET run == runs[r]
        row == getProjectRow(Head(run.pids), sheet)
    IN  /\ run.pc = "project"
        /\ UNCHANGED calls
        /\ IF run.pids = <<>> THEN RunStep(r, Idle, sheet)
           ELSE IF row < 0 THEN RunStep(r, [run EXCEPT !.pids = Tail(run.pids)], sheet)
           ELSE RunStep(r, [run EXCEPT !.pc = "guard",
                                       !.slots = IF run.op = "autoAssignUnconnectedProjects"
                                                 THEN StepsOfAssignAll(row, sheet)
                                                 ELSE DesignerSteps],
                        sheet)

\* the already-assigned guard of an assign function (73-75, 102-104, 188-190,
\* 213-215) with the cell read that follows it, or the gate of assignAll 296
ReadGuard(r) ==
    LET run == runs[r]
        slot == Head(run.slots)
        row == getProjectRow(Head(run.pids), sheet)
    IN  /\ run.pc = "guard"
        /\ run.slots # <<>>
        /\ UNCHANGED calls
        /\ IF slot = Gate
           THEN RunStep(r, [run EXCEPT !.slots = IF GateAt(row, sheet) THEN Tail(run.slots)
                                                 ELSE <<>>], sheet)
           ELSE IF \/ NonBlank(Cell(sheet, row, slot))
                   \/ slot = "ASSIGNED_WRITER" /\ ~NonBlank(Cell(sheet, row, "WRITER_TOPIC"))
           THEN RunStep(r, [run EXCEPT !.slots = Tail(run.slots)], sheet)
           ELSE RunStep(r, [run EXCEPT !.pc = "rank", !.key = KeyOf(slot, row, sheet)], sheet)

\* the candidate table is fetched and ranked (82-83, 115-116, 192-193, 217-218)
FetchRanking(r) ==
    LET run == runs[r]
        ranked == RankedFor(Head(run.slots), run.key)
    IN  /\ run.pc = "rank"
        /\ UNCHANGED calls
        /\ IF ranked = <<>>
           THEN RunStep(r, [run EXCEPT !.pc = "guard", !.slots = Tail(run.slots)], sheet)
           ELSE RunStep(r, [run EXCEPT !.pc = "write", !.chosen = ranked[1]], sheet)

\* update_cell(row, assign_col, chosen) (89, 124, 199, 224)
WriteSlot(r) ==
    LET run == runs[r]
        row == getProjectRow(Head(run.pids), sheet)
    IN  /\ run.pc = "write"
        /\ UNCHANGED calls
        /\ RunStep(r, [run EXCEPT !.pc = "guard", !.slots = Tail(run.slots), !.chosen = "",
                                  !.key = ""],
                   UpdateCell(sheet, row, Head(run.slots), run.chosen))

\* the project is done: autoAssignUnconnectedProjects marks it connected
\* (411-418), both loops go on with the next project
FinishProject(r) ==
    LET run == runs[r]
        row == getProjectRow(Head(run.pids), sheet)
    IN  /\ run.pc = "guard"
        /\ run.slots = <<>>
        /\ UNCHANGED calls
        /\ RunStep(r, [run EXCEPT !.pc = "project", !.pids = Tail(run.pids)],
                   IF run.op = "autoAssignUnconnectedProjects" THEN Connected(row, sheet)
                   ELSE sheet)

RaceInit ==
    /\ sheet \in InitSheets \cup PostponedSheets
    /\ \E pool \in CandidatePools :
           /\ writers = pool.writers
           /\ designers = pool.designers
           /\ controllers = pool.controllers
    /\ last = NoCall
    /\ calls = 0
    /\ runs = NoRuns
    /\ BotIdle

RaceNext ==
    \/ \E r \in RunIds : StartAutoAssign(r)
    \/ \E r \in RunIds : StartCheckPending(r)
    \/ \E r \in RunIds : NextProject(r)
    \/ \E r \in RunIds : ReadGuard(r)
    \/ \E r \in RunIds : FetchRanking(r)
    \/ \E r \in RunIds : WriteSlot(r)
    \/ \E r \in RunIds : FinishProject(r)
    \/ EditCandidates

RaceSpec == RaceInit /\ [][RaceNext]_vars

(***************************************************************************)
(* The deadline calculator called with every combination of its            *)
(* arguments: the project deadline and the clock in half days, a priority  *)
(* with or without a multiplier, and the two role flags.                   *)
(***************************************************************************)
MaxHalfDays == 48

DeadlineTimes == {40, 41}
ClockTimes == 0..MaxHalfDays
DeadlinePriorities == {"High", "Medium", "Low", "Urgent"}

DeadlineArgs ==
    [project_deadline : DeadlineTimes, now : ClockTimes, priority : DeadlinePriorities,
     needs_writer : BOOLEAN, needs_designer : BOOLEAN]

AvailableDays == -2..20
CoreDays == {0, 4, 5, 6, 7, 8}

CompressArgs ==
    [available_days : AvailableDays, writing_days : CoreDays, design_days : CoreDays,
     needs_writer : BOOLEAN, needs_designer : BOOLEAN]

\* the arguments of the call to come
DeadlineInit ==
    /\ sheet = <<>>
    /\ writers = <<>>
    /\ designers = <<>>
    /\ controllers = <<>>
    /\ last \in {[NoCall EXCEPT !.args = a] : a \in DeadlineArgs \cup CompressArgs}
    /\ calls = 0
    /\ runs = NoRuns
    /\ BotIdle

CalculatePhaseDeadlines ==
    /\ last.op = "none"
    /\ last.args \in DeadlineArgs
    /\ last' = [last EXCEPT
                   !.op = "calculate_phase_deadlines",
                   !.ret = calculate_phase_deadlines(last.args.project_deadline,
                                                     last.args.priority,
                                                     last.args.needs_writer,
                                                     last.args.needs_designer,
                                                     last.args.now)]
    /\ UNCHANGED <<sheet, writers, designers, controllers, calls, runs, db, scan, sent, clock>>

CompressQcTime ==
    /\ last.op = "none"
    /\ last.args \in CompressArgs
    /\ last' = [last EXCEPT
                   !.op = "_compress_qc_time",
                   !.ret = compress_qc_time(last.args.available_days,
                                            last.args.writing_days,
                                            last.args.design_days,
                                            last.args.needs_writer,
                                            last.args.needs_designer)]
    /\ UNCHANGED <<sheet, writers, designers, controllers, calls, runs, db, scan, sent, clock>>

DeadlineNext == CalculatePhaseDeadlines \/ CompressQcTime

DeadlineSpec == DeadlineInit /\ [][DeadlineNext]_vars

(***************************************************************************)
(* The deadline write-back of one project, called on its own and followed  *)
(* or preceded by a batch scan.                                            *)
(***************************************************************************)
\* the clock at the call: well before and close to the deadlines
WriteBackClocks ==
    {Midnight([y |-> 2025, m |-> 3, d |-> 1]), Midnight([y |-> 2025, m |-> 3, d |-> 17]) + 1}

WriteBackInit ==
    /\ sheet \in DeadlineSheets
    /\ writers = <<Ann, Bob>>
    /\ designers = <<Dan, Dee>>
    /\ controllers = <<Cy, Col>>
    /\ last = NoCall
    /\ calls = 0
    /\ runs = NoRuns
    /\ BotIdle

UpdateProjectDeadlines ==
    \E pid \in PidInputs, auto_calculate \in BOOLEAN, now \in WriteBackClocks :
        LET out == update_project_deadlines(pid, sheet, auto_calculate, now)
        IN  /\ Counted
            /\ sheet' = out.sheet
            /\ last' = [Called("update_project_deadlines", pid, "", NoExc, out.ret, <<>>)
                           EXCEPT !.args = [auto_calculate |-> auto_calculate, now |-> now]]

WriteBackNext == UpdateProjectDeadlines \/ AutoAssign

WriteBackSpec == WriteBackInit /\ [][WriteBackNext]_vars

(***************************************************************************)
(* One read of the phase of a project.                                     *)
(***************************************************************************)
PhaseInit ==
    /\ sheet \in PhaseSheets
    /\ writers = <<>>
    /\ designers = <<>>
    /\ controllers = <<>>
    /\ last = NoCall
    /\ calls = 0
    /\ runs = NoRuns
    /\ BotIdle

GetCurrentPhase ==
    \E pid \in PidInputs :
        LET out == get_current_phase(pid, sheet)
        IN  /\ last.op = "none"
            /\ Counted
            /\ last' = Called("get_current_phase", pid, "", out.exc, out.ret, <<>>)
            /\ UNCHANGED sheet

PhaseNext == GetCurrentPhase

PhaseSpec == PhaseInit /\ [][PhaseNext]_vars

(***************************************************************************)
(* Calls of the scoring and id helpers on their own.                       *)
(***************************************************************************)
MaxTasks == 4

PriorityTexts ==
    {"High", " high ", "HIGH", "Medium", "medium", "Low", " lOW", "None", "", "Urgent", "Hi gh"}

TopicTexts == {"Science", " science ", "ART", "Art", "any", "do not assign", ""}

CategoryTexts ==
    {"Science", "SCIENCE ", "Art", "ANY", " any", "DO NOT ASSIGN", "do not assign",
     "DO NOT  ASSIGN", "", "Sci ence"}

HelperInit ==
    /\ sheet \in InitSheets
    /\ writers = <<>>
    /\ designers = <<>>
    /\ controllers = <<>>
    /\ last = NoCall
    /\ calls = 0
    /\ runs = NoRuns
    /\ BotIdle

\* a helper was called with args and returned ret or raised exc
Helped(op, args, exc, ret) ==
    /\ Counted
    /\ last' = [Called(op, "", "", exc, ret, <<>>) EXCEPT !.args = args]
    /\ UNCHANGED sheet

GetWorkloadPenalty ==
    \E priority \in PriorityTexts, open_tasks \in 0..MaxTasks :
        Helped("getWorkloadPenalty", [priority |-> priority, open_tasks |-> open_tasks],
               NoExc, getWorkloadPenalty(priority, open_tasks))

GetTopicPenalty ==
    \E required_topic \in TopicTexts, writer_category \in CategoryTexts :
        Helped("getTopicPenalty",
               [required_topic |-> required_topic, writer_category |-> writer_category],
               NoExc, getTopicPenalty(required_topic, writer_category))

\* formatPID raises ValueError or returns the canonical text
Formatted(args, text) ==
    Helped("formatPID", args, IF text = ValueError THEN InvalidPid ELSE NoExc,
           IF text = ValueError THEN <<>> ELSE text)

\* the integers formatPID is called with
PidNumbers == {-1, 0, 1, 7, 999999, 1000000}

FormatPID ==
    \/ \E pid \in PidTexts : Formatted([pid |-> pid], FormatPidTable[pid])
    \/ \E num \in PidNumbers : Formatted([num |-> num], FormatNumber(num))

GetProjectRow ==
    \E project_id \in PidTexts :
        Helped("getProjectRow", [project_id |-> project_id],
               IF getProjectRow(project_id, sheet) = Raised THEN InvalidPid ELSE NoExc,
               IF getProjectRow(project_id, sheet) = Raised THEN <<>>
               ELSE getProjectRow(project_id, sheet))

HelperNext == GetWorkloadPenalty \/ GetTopicPenalty \/ FormatPID \/ GetProjectRow

HelperSpec == HelperInit /\ [][HelperNext]_vars

(***************************************************************************)
(* Calls of the rankers and of the row processors on candidate sheets.     *)
(***************************************************************************)
RankTopics == {"Science", " science ", "Art", ""}
RankPriorities == {"High", "medium", "Low", "None"}
RankSpecialities == {"Writing", "Design", "design", "Both"}

RankInit ==
    /\ \/ /\ writers \in RankerSheets(WriterCases)
          /\ designers = <<>> /\ controllers = <<>> /\ sheet = <<>>
       \/ /\ designers \in RankerSheets(DesignerSheetCases)
                           \cup {<<r>> : r \in RowsOf(DesignerCases)}
          /\ writers = <<>> /\ controllers = <<>> /\ sheet = <<>>
       \/ /\ controllers \in RankerSheets(ControllerCases)
          /\ writers = <<>> /\ designers = <<>> /\ sheet = <<>>
       \/ /\ controllers \in ControllerTables
          /\ writers = <<>> /\ designers = <<>> /\ sheet \in InitSheets
    /\ last = NoCall
    /\ calls = 0
    /\ runs = NoRuns
    /\ BotIdle

\* one call on the candidate sheets as they are
Ranks(op, args, ret) ==
    /\ last.op = "none"
    /\ Helped(op, args, NoExc, ret)

GetBestWriter ==
    \E topic \in RankTopics :
        Ranks("getBestWriter", [topic |-> topic], getBestWriter(topic, writers))

GetBestDesigner ==
    \E priority \in RankPriorities :
        Ranks("getBestDesigner", [priority |-> priority], getBestDesigner(priority, designers))

GetBestController ==
    \E speciality \in RankSpecialities :
        Ranks("getBestController", [speciality |-> speciality],
              getBestController(speciality, controllers))

\* the row processors are called on the row of a one-row sheet
ProcessWriterRow ==
    \E topic \in RankTopics :
        /\ Len(filterValidRows(writers)) = 1
        /\ Ranks("processWriterRow", [row |-> filterValidRows(writers)[1], topic |-> topic],
                 processWriterRow(filterValidRows(writers)[1], topic))

ProcessDesignerRow ==
    \E priority \in RankPriorities :
        /\ Len(filterValidRows(designers)) = 1
        /\ Ranks("processDesignerRow",
                 [row |-> filterValidRows(designers)[1], priority |-> priority],
                 processDesignerRow(filterValidRows(designers)[1], priority))

ProcessControllerRow ==
    /\ Len(filterValidRows(controllers)) = 1
    /\ Ranks("processControllerRow", [row |-> filterValidRows(controllers)[1]],
             processControllerRow(filterValidRows(controllers)[1]))

RankNext ==
    \/ GetBestWriter
    \/ GetBestDesigner
    \/ GetBestController
    \/ ProcessWriterRow
    \/ ProcessDesignerRow
    \/ ProcessControllerRow
    \/ sheet # <<>> /\ AssignWriterController
    \/ sheet # <<>> /\ AssignDesignerController

RankSpec == RankInit /\ [][RankNext]_vars

(***************************************************************************)
(* Calls of assignAll alone, on sheets with and without deadline cells.    *)
(***************************************************************************)
FrameSheets ==
    InitSheets \cup {sh \in DeadlineSheets : sh[1].PROJECT_DEADLINE = "2025-03-20"}

FrameInit ==
    /\ sheet \in FrameSheets
    /\ \E pool \in CandidatePools :
           /\ writers = pool.writers
           /\ designers = pool.designers
           /\ controllers = pool.controllers
    /\ last = NoCall
    /\ calls = 0
    /\ runs = NoRuns
    /\ BotIdle

FrameNext == AssignAll

FrameSpec == FrameInit /\ [][FrameNext]_vars

(***************************************************************************)
(* Writer assignments from tables that hold a writer marked DO NOT ASSIGN. *)
(***************************************************************************)
BlacklistInit ==
    /\ sheet \in InitSheets
    /\ writers \in BlacklistTables
    /\ designers = <<Dan, Dee>>
    /\ controllers = <<Cy, Col>>
    /\ last = NoCall
    /\ calls = 0
    /\ runs = NoRuns
    /\ BotIdle

BlacklistNext == AssignWriter \/ AssignAll

BlacklistSpec == BlacklistInit /\ [][BlacklistNext]_vars

(***************************************************************************)
(* The two assignment timers of bot/timers.py: auto_assign_projects runs   *)
(* the batch every five minutes and check_designer_assignments the pending *)
(* check every ten, each catching whatever its run raises.  The candidate  *)
(* sheets are filled and stay as they are; every project has a well-formed *)
(* id.                                                                     *)
(***************************************************************************)
RepairSheets ==
    { sh \in InitSheets : \A i \in DOMAIN sh : sh[i].PROJECT_ID \in {"#000001", "#000002"} }

RepairInit ==
    /\ sheet \in RepairSheets
    /\ writers = <<Ann, Bob>>
    /\ designers = <<Dan, Dee>>
    /\ controllers = <<Cy, Col>>
    /\ last = NoCall
    /\ calls = 0
    /\ runs = NoRuns
    /\ BotIdle

\* one run of the batch timer, the store failing as fault says
BatchRun(fault) ==
    \E out \in {autoAssignUnconnectedProjects(sheet, designers, writers, controllers, fault)} :
        /\ sheet' = out.sheet
        /\ last' = Ran("auto_assign_projects", UnconnectedProjects(sheet), fault,
                       out.exc, out.ret, out.log)
        /\ UNCHANGED <<writers, designers, controllers, calls, runs, db, scan, sent, clock>>

AutoAssignProjects ==
    \E fault \in AutoAssignFaults(Len(UnconnectedProjects(sheet))) : BatchRun(fault)

RepairNext == AutoAssignProjects \/ CheckDesignerAssignments \/ CompleteWritingQc

\* both loops keep running, and the store does not fail in every run
RepairSpec ==
    RepairInit /\ [][RepairNext]_vars /\ WF_vars(BatchRun(NoFault)) /\ WF_vars(TimerRun(NoFault))

(***************************************************************************)
(* Declines.  The decline button is on the message sent to the person who  *)
(* was written into the slot; pressing it runs handle_reassignment for the *)
(* project and role of the message.                                        *)
(***************************************************************************)
\* the name in the slot of a role of project pid, "" without such a row
Assignee(pid, role_type, sh) ==
    IF getProjectRow(pid, sh) < 0 THEN ""
    ELSE Cell(sh, getProjectRow(pid, sh), RoleColumn[role_type])

\* lines 49-76
DeclineAssignment ==
    \E pid \in SinglePidInputs, role_type \in RoleTypes :
        /\ NonBlank(Assignee(pid, role_type, sheet))
        /\ sheet' = handle_reassignment(pid, role_type, sheet, designers, writers, controllers)
        /\ last' = [Called("decline_assignment", pid, "none", NoExc, <<>>, <<>>)
                       EXCEPT !.args = [role_type |-> role_type,
                                        person_name |-> Assignee(pid, role_type, sheet)]]
        /\ UNCHANGED <<writers, designers, controllers, calls, runs, db, scan, sent, clock>>

DeclineNext == AssignAll \/ CompleteWritingQc \/ DeclineAssignment

DeclineSpec == Init /\ [][DeclineNext]_vars

(***************************************************************************)
(* The thread registry in use: the register command and the thread events  *)
(* of the bot call the four registry functions, one at a time, while the   *)
(* days pass.                                                              *)
(***************************************************************************)
MaxDays == 30

ThreadIds == {"1001", "1002", "1003"}
ProjectIds == {"000001", "000002"}
UserNames == {"ann"}

RegistryInit ==
    /\ sheet = <<>>
    /\ writers = <<>>
    /\ designers = <<>>
    /\ controllers = <<>>
    /\ last = NoCall
    /\ calls = 0
    /\ runs = NoRuns
    /\ BotIdle

\* a registry call with its arguments and its value
Used(op, args, ret) == [NoCall EXCEPT !.op = op, !.args = args, !.ret = ret]

RegisterThread ==
    \E t \in ThreadIds, p \in ProjectIds, u \in UserNames :
        /\ db' = register_thread(t, p, u, clock, db)
        /\ last' = Used("register_thread",
                        [thread_id |-> t, project_id |-> p, registered_by |-> u], <<>>)
        /\ UNCHANGED <<sheet, writers, designers, controllers, calls, runs, scan, sent, clock>>

UnregisterThread ==
    \E t \in ThreadIds :
        /\ db' = unregister_thread(t, db).db
        /\ last' = Used("unregister_thread", [thread_id |-> t], unregister_thread(t, db).ret)
        /\ UNCHANGED <<sheet, writers, designers, controllers, calls, runs, scan, sent, clock>>

GetThreadProject ==
    \E t \in ThreadIds :
        /\ last' = Used("get_thread_project", [thread_id |-> t], get_thread_project(t, db))
        /\ UNCHANGED <<sheet, writers, designers, controllers, calls, runs, db, scan, sent, clock>>

FindProjectThread ==
    \E p \in ProjectIds :
        /\ last' = Used("find_project_thread", [project_id |-> p], find_project_thread(p, db))
        /\ UNCHANGED <<sheet, writers, designers, controllers, calls, runs, db, scan, sent, clock>>

\* a month less a day, or a month, goes by while no scan is under way
DaysPass ==
    \E days \in {ExpiryDays - 1, ExpiryDays} :
        /\ scan.pc = "sleep"
        /\ clock + days <= MaxDays
        /\ clock' = clock + days
        /\ last' = NoCall
        /\ UNCHANGED <<sheet, writers, designers, controllers, calls, runs, db, scan, sent>>

RegistryNext ==
    RegisterThread \/ UnregisterThread \/ GetThreadProject \/ FindProjectThread \/ DaysPass

RegistrySpec == RegistryInit /\ [][RegistryNext]_vars

(***************************************************************************)
(* The daily scan next to the registry calls.  Each action of the scan is  *)
(* its work from one suspension to the next: an iteration in which no      *)
(* thread is over the age awaits nothing between load_db and save_db.      *)
(***************************************************************************)
\* lines 74-107: the registry is loaded and the first expired thread fetched
ScanLoad ==
    /\ scan.pc = "sleep"
    /\ IF Expired(db, clock) = <<>>
       THEN /\ scan' = Asleep
            /\ db' = WithoutExpired(db, clock)
       ELSE /\ scan' = [pc |-> "await", db |-> db]
            /\ db' = db
    /\ last' = Used("auto_fail_expired_threads", [pc |-> "load_db"], <<>>)
    /\ UNCHANGED <<sheet, writers, designers, controllers, calls, runs, sent, clock>>

\* lines 109-113: the last await is over, the copy is cut and saved
ScanSave ==
    /\ scan.pc = "await"
    /\ db' = WithoutExpired(scan.db, clock)
    /\ scan' = Asleep
    /\ last' = Used("auto_fail_expired_threads", [pc |-> "save_db"], <<>>)
    /\ UNCHANGED <<sheet, writers, designers, controllers, calls, runs, sent, clock>>

ScanNext == RegisterThread \/ UnregisterThread \/ DaysPass \/ ScanLoad \/ ScanSave

ScanSpec == RegistryInit /\ [][ScanNext]_vars

(***************************************************************************)
(* The QC results timer runs every five minutes; in between, controllers   *)
(* enter results into cells that are still empty.                          *)
(***************************************************************************)
QcInit ==
    /\ sheet \in QcSheets
    /\ writers = <<>>
    /\ designers = <<>>
    /\ controllers = <<>>
    /\ last = NoCall
    /\ calls = 0
    /\ runs = NoRuns
    /\ BotIdle

CheckQcResults ==
    \E qc_notifications \in {check_qc_results(sheet)} :
        /\ calls < MaxCalls
        /\ calls' = calls + 1
        /\ sent' = sent \o send_qc_result_notifications(qc_notifications)
        /\ last' = Used("check_qc_results", <<>>, qc_notifications)
        /\ UNCHANGED <<sheet, writers, designers, controllers, runs, db, scan, clock>>

EnterQcResult ==
    \E i \in DOMAIN sheet, col \in {"WRITER_QC_RESULT", "DESIGN_QC_RESULT"}, result \in QcResults :
        /\ sheet[i][col] = ""
        /\ sheet' = [sheet EXCEPT ![i][col] = result]
        /\ last' = NoCall
        /\ UNCHANGED <<writers, designers, controllers, calls, runs, db, scan, sent, clock>>

QcNext == CheckQcResults \/ EnterQcResult

QcSpec == QcInit /\ [][QcNext]_vars

(***************************************************************************)
(* Properties of the engine's entry points.                                *)
(***************************************************************************)
Slots ==
    {"ASSIGNED_WRITER", "WRITER_QC_CONTROLLER", "ASSIGNED_DESIGNER",
     "DESIGN_QC_CONTROLLER"}

DesignerSlots == {"ASSIGNED_DESIGNER", "DESIGN_QC_CONTROLLER"}

GatedCalls ==
    {"assignAll", "autoAssignUnconnectedProjects", "checkPendingDesignerAssignments"}

Waiting == "Waiting for writing completion"

\* the step taken is a call of assignAll that returned its map
AllReturned == last'.op = "assignAll" /\ last'.exc = NoExc

\* the index in sheet of the row assignAll worked on
RowOfCall == getProjectRow(last'.pid, sheet) - HeaderRows

\* the value is one of the outcomes a role can have
IsOutcome(v) ==
    \/ v \in {"Not required", "Assigned", Waiting, "Skipped (no writer)",
              "Skipped (no designer)"}
    \/ Len(v) > 8 /\ SubSeq(v, 1, 8) = "Failed: "

IsResultMap(ret) ==
    /\ DOMAIN ret = {"writer", "writer_controller", "designer", "design_controller"}
    /\ \A k \in DOMAIN ret : IsOutcome(ret[k])

\* C1: whatever calls of the seven entry points are made and however the
\* candidate sheets change in between, an assignment slot that is non-blank
\* before a step holds the same value after it.
C1_FilledSlotKept ==
    [][\A i \in DOMAIN sheet : \A slot \in Slots :
           NonBlank(sheet[i][slot]) => sheet'[i][slot] = sheet[i][slot]]_vars

\* assignAll ran its design-controller step on a slot that was filled before
\* the run began, with a Design controller at hand
C1_Witness ==
    /\ last.op = "assignAll"
    /\ last.exc = NoExc
    /\ last.ret.design_controller = "Assigned"
    /\ sheet[1].DESIGN_QC_CONTROLLER = "Quinn"
    /\ sheet[1].ASSIGNED_WRITER = "Eve"
    /\ RankedControllers("Design", controllers) # <<>>

\* C2: assignAll and the two batch scanners write a designer slot or a
\* design-QC-controller slot of a row only if that row's writer-required
\* cell is none of YES, TRUE, 1, Y (in any case) or its writer-QC-exit
\* marker is non-blank.
C2_DesignerOnlyAfterWriting ==
    [][last'.op \in GatedCalls =>
           \A i \in DOMAIN sheet : \A slot \in DesignerSlots :
               sheet'[i][slot] # sheet[i][slot] =>
                   \/ ~Needed(sheet[i].WRITER_REQUIRED)
                   \/ NonBlank(sheet[i].WRITER_QC_EXIT_DATE)]_vars

\* C3: should_contact_designer is true whenever the writer-required cell is
\* none of YES, TRUE, 1, Y (in any case); when it is one of them the result
\* is false for a blank or whitespace-only writer-QC-exit marker and true
\* for a non-blank one.
C3_GateFollowsRequiredFlag ==
    (last.op = "should_contact_designer" /\ getProjectRow(last.pid, sheet) > 0) =>
        last.ret.contact = IF Needed(sheet[1].WRITER_REQUIRED)
                           THEN NonBlank(sheet[1].WRITER_QC_EXIT_DATE)
                           ELSE TRUE

C5_NoWriterReported ==
    [][AllReturned =>
           LET r == sheet[RowOfCall]
           IN  (/\ Needed(r.WRITER_REQUIRED)
                /\ ~NonBlank(r.ASSIGNED_WRITER)
                /\ NonBlank(r.WRITER_TOPIC)
                /\ RankedWriters(strip(r.WRITER_TOPIC), writers) = <<>>)
               => /\ last'.ret.writer # "Assigned"
                  /\ sheet'[RowOfCall].WRITER_QC_CONTROLLER = r.WRITER_QC_CONTROLLER]_vars

\* the call had a blank topic, a required writer, a blank writer slot and no
\* failing writer step
BlankTopicCall ==
    /\ AllReturned
    /\ last'.fault.step # "writer"
    /\ Needed(sheet[RowOfCall].WRITER_REQUIRED)
    /\ ~NonBlank(sheet[RowOfCall].ASSIGNED_WRITER)
    /\ ~NonBlank(sheet[RowOfCall].WRITER_TOPIC)

WriterToPick ==
    /\ Needed(sheet[RowOfCall].WRITER_REQUIRED)
    /\ ~NonBlank(sheet[RowOfCall].ASSIGNED_WRITER)
    /\ NonBlank(sheet[RowOfCall].WRITER_TOPIC)
    /\ RankedWriters(strip(sheet[RowOfCall].WRITER_TOPIC), writers) # <<>>

\* the project of the call needs a designer and the phase gate is open
GateOpen ==
    /\ Needed(sheet[RowOfCall].DESIGNER_REQUIRED)
    /\ WritingDone(sheet[RowOfCall].WRITER_REQUIRED, sheet[RowOfCall].WRITER_QC_EXIT_DATE)

\* the project of the call needs a designer that assignDesigner can pick
DesignerToPick ==
    /\ GateOpen
    /\ ~NonBlank(sheet[RowOfCall].ASSIGNED_DESIGNER)
    /\ RankedDesigners(PriorityOf(sheet[RowOfCall].PRIORITY), designers) # <<>>

\* C7: when the controller step of assignAll fails after the worker step
\* wrote a name, the worker slot holds the written name when the call
\* returns, the worker is reported 'Assigned' and the controller
\* 'Failed: <reason>'; a failing writer-QC-controller step does not keep the
\* designer-side steps from running.
C7_ControllerFailureKeepsWorker ==
    [][AllReturned =>
           /\ (last'.fault.step = "writer_controller" /\ WriterToPick) =>
                  /\ sheet'[RowOfCall].ASSIGNED_WRITER =
                         RankedWriters(strip(sheet[RowOfCall].WRITER_TOPIC), writers)[1]
                  /\ last'.ret.writer = "Assigned"
                  /\ last'.ret.writer_controller = "Failed: APIError"
                  /\ sheet'[RowOfCall].WRITER_QC_CONTROLLER =
                         sheet[RowOfCall].WRITER_QC_CONTROLLER
                  /\ GateOpen =>
                         /\ last'.log[3] = "assignDesigner"
                         /\ last'.log[4] = "assignDesignerController"
                  /\ DesignerToPick => NonBlank(sheet'[RowOfCall].ASSIGNED_DESIGNER)
           /\ (last'.fault.step = "design_controller" /\ DesignerToPick) =>
                  /\ sheet'[RowOfCall].ASSIGNED_DESIGNER =
                         RankedDesigners(PriorityOf(sheet[RowOfCall].PRIORITY),
                                         designers)[1]
                  /\ last'.ret.designer = "Assigned"
                  /\ last'.ret.design_controller = "Failed: APIError"
                  /\ sheet'[RowOfCall].DESIGN_QC_CONTROLLER =
                         sheet[RowOfCall].DESIGN_QC_CONTROLLER]_vars

\* the writer-QC-controller step failed after a writer was written, and the
\* designer side went on to write a designer and a design-QC controller
C7_Witness ==
    /\ last.op = "assignAll"
    /\ last.pid = "#000001"
    /\ last.fault.step = "writer_controller"
    /\ last.ret.writer_controller = "Failed: APIError"
    /\ sheet[1].ASSIGNED_WRITER \in {"Ann", "Bob"}
    /\ sheet[1].WRITER_QC_CONTROLLER = ""
    /\ sheet[1].ASSIGNED_DESIGNER \in {"Dan", "Dee"}
    /\ sheet[1].DESIGN_QC_CONTROLLER = "Col"

\* C8: when a designer is required and the phase gate blocks, assignAll
\* reports 'Waiting for writing completion' for the designer and for the
\* design controller, leaves both of their slots as they were, and has
\* carried out the writer-side steps.
C8_BlockedGateWaits ==
    [][(/\ AllReturned
        /\ Needed(sheet[RowOfCall].DESIGNER_REQUIRED)
        /\ ~WritingDone(sheet[RowOfCall].WRITER_REQUIRED,
                        sheet[RowOfCall].WRITER_QC_EXIT_DATE))
           => /\ last'.ret.designer = Waiting
              /\ last'.ret.design_controller = Waiting
              /\ \A slot \in DesignerSlots :
                     sheet'[RowOfCall][slot] = sheet[RowOfCall][slot]
              /\ last'.log[1] = "assignWriter"
              /\ last'.ret.writer # "Not required"
              /\ WriterToPick /\ last'.fault.step = "none" =>
                     /\ sheet'[RowOfCall].ASSIGNED_WRITER =
                            RankedWriters(strip(sheet[RowOfCall].WRITER_TOPIC), writers)[1]
                     /\ last'.log = <<"assignWriter", "assignWriterController">>]_vars

\* the gate blocked the designer of a project whose writer and writer-QC
\* controller the same kind of call assigns, with designers at hand
C8_Witness ==
    /\ last.op = "assignAll"
    /\ last.pid = "#000001"
    /\ last.exc = NoExc
    /\ last.ret.designer = Waiting
    /\ last.ret.design_controller = Waiting
    /\ sheet[1].ASSIGNED_WRITER \in {"Ann", "Bob"}
    /\ sheet[1].WRITER_QC_CONTROLLER = "Cy"
    /\ sheet[1].ASSIGNED_DESIGNER = ""
    /\ designers # <<>>

\* the project of row i was postponed: connected, designer and writer
\* required, no designer yet
Postponed(i) ==
    /\ IsPendingDesigner(sheet[i])
    /\ Needed(sheet[i].WRITER_REQUIRED)

\* C9: a postponed project is eventually given a designer: once its
\* writer-QC-exit marker is set and the designer table has a row that can be
\* ranked, the timer's runs of checkPendingDesignerAssignments fill its
\* designer slot.
C9_PostponedGetsDesigner ==
    \A i \in 1..2 :
        (/\ Postponed(i)
         /\ NonBlank(sheet[i].WRITER_QC_EXIT_DATE)
         /\ RankedDesigners(PriorityOf(sheet[i].PRIORITY), designers) # <<>>)
            ~> NonBlank(sheet[i].ASSIGNED_DESIGNER)

\* the assignAll calls of a batch run, in the order they were made
AssignAllEvents(log) == SelectSeq(log, LAMBDA e : e.ev = "assignAll")

\* C10: a run of autoAssignUnconnectedProjects whose table fetch succeeds
\* processes exactly the rows with a non-blank id, a truthy ready flag and a
\* connected flag that is not truthy, in sheet row order, and leaves every
\* other row unchanged.
C10_ExactlyTheSelectedRows ==
    [][(last'.op = "autoAssignUnconnectedProjects" /\ last'.fault.step # "scan")
           => /\ [k \in DOMAIN AssignAllEvents(last'.log) |->
                      AssignAllEvents(last'.log)[k].pid] = UnconnectedProjects(sheet)
              /\ \A i \in DOMAIN sheet :
                     ~IsUnconnectedReady(sheet[i]) => sheet'[i] = sheet[i]]_vars

\* assignAll raises for the k-th selected project of a batch run with fault
RaisesFor(pids, k, fault) ==
    assignAll(pids[k], sheet, designers, writers, controllers, StepFault(fault, k)).exc
        # NoExc

MarkFails(k, fault) == fault.at = k /\ fault.step = "connected"

RECURSIVE StepsFrom(_, _, _)
\* the steps of a batch run from the k-th selected project on, as C11 has them
StepsFrom(pids, k, fault) ==
    IF k > Len(pids) THEN <<>>
    ELSE <<Event("deadline", pids[k]), Event("assignAll", pids[k])>>
         \o (IF RaisesFor(pids, k, fault) \/ MarkFails(k, fault) THEN <<>>
             ELSE <<Event("connected", pids[k])>>)
         \o StepsFrom(pids, k + 1, fault)

\* C11: for each project a run of autoAssignUnconnectedProjects selects, the
\* deadline step is tried, then assignAll is called, then the project is
\* marked connected; assignAll runs although the deadline step fails; the
\* connected cell becomes YES when assignAll returned and is left alone when
\* assignAll raised; when marking fails the map assignAll returned stays the
\* project's recorded result.
C11_StepsInOrder ==
    [][(last'.op = "autoAssignUnconnectedProjects" /\ last'.exc = NoExc) =>
           LET pids == UnconnectedProjects(sheet)
           IN  /\ last'.log = StepsFrom(pids, 1, last'.fault)
               /\ \A k \in 1..Len(pids) :
                      LET i == getProjectRow(pids[k], sheet) - HeaderRows
                      IN  IF RaisesFor(pids, k, last'.fault)
                          THEN /\ IsError(last'.ret.assignments[pids[k]])
                               /\ i > 0 => sheet'[i].PROJECT_CONNECTED
                                               = sheet[i].PROJECT_CONNECTED
                          ELSE /\ IsResultMap(last'.ret.assignments[pids[k]])
                               /\ sheet'[i].PROJECT_CONNECTED =
                                      IF MarkFails(k, last'.fault)
                                      THEN sheet[i].PROJECT_CONNECTED ELSE "YES"]_vars

\* a run over two projects: assignAll returned for the first, whose marking
\* failed, and raised for the second
C11_Witness ==
    /\ last.op = "autoAssignUnconnectedProjects"
    /\ last.exc = NoExc
    /\ last.pids = <<"000001", "7">>
    /\ last.fault = [at |-> 1, step |-> "connected"]
    /\ IsResultMap(last.ret.assignments["000001"])
    /\ IsError(last.ret.assignments["7"])
    /\ sheet[1].PROJECT_CONNECTED # "YES"

BatchCalls == {"autoAssignUnconnectedProjects", "checkPendingDesignerAssignments"}

\* C12: in a run of a batch scanner whose table fetch succeeds, a failure
\* that belongs to one project row (an id formatPID rejects, an id no row is
\* found for) is recorded for that project only: the run returns its summary
\* and every selected project has its entry in it.
C12_FailureStaysWithItsProject ==
    (last.op \in BatchCalls /\ last.fault.step # "scan") =>
        /\ last.exc = NoExc
        /\ last.op = "autoAssignUnconnectedProjects" =>
               \A k \in 1..Len(last.pids) : last.pids[k] \in DOMAIN last.ret.assignments

SummaryKeys ==
    {"projects_processed", "successful_assignments", "failed_assignments", "assignments"}

\* C13: whenever a batch scanner returns, also when its scan selected no
\* project, the result holds the processed count, the successful count, the
\* failed count and the per-project results.
C13_SummaryHasFourKeys ==
    (last.op \in BatchCalls /\ last.exc = NoExc) => DOMAIN last.ret = SummaryKeys

\* C14: after a crash of assignAll that left a ready, unconnected project
\* with its writer written and its writer-QC-controller slot blank, the next
\* run of autoAssignUnconnectedProjects whose store calls succeed, with a
\* controller for Writing in the table, fills the writer-QC-controller slot
\* and leaves the writer slot as the crash left it.
C14_BatchRepairsCrash ==
    [][(/\ last.op = "assignAll"
        /\ last.exc = Crashed
        /\ last'.op = "autoAssignUnconnectedProjects"
        /\ last'.fault = NoFault
        /\ RankedControllers("Writing", controllers) # <<>>)
           => LET i == getProjectRow(last.pid, sheet) - HeaderRows
              IN  (IsUnconnectedReady(sheet[i]) /\ ~NonBlank(sheet[i].WRITER_QC_CONTROLLER))
                  => /\ sheet'[i].WRITER_QC_CONTROLLER =
                            RankedControllers("Writing", controllers)[1]
                     /\ sheet'[i].ASSIGNED_WRITER = sheet[i].ASSIGNED_WRITER]_vars

AssignmentSlots ==
    {"ASSIGNED_WRITER", "WRITER_QC_CONTROLLER", "ASSIGNED_DESIGNER", "DESIGN_QC_CONTROLLER"}

\* C15: while two batch invocations interleave their cell reads and writes
\* and the candidate tables change between the steps, no assignment slot
\* goes from one non-blank name to a different non-blank name.
C15_NoSlotWrittenTwice ==
    [][\A i \in 1..Len(sheet) : \A slot \in AssignmentSlots :
           (NonBlank(sheet[i][slot]) /\ NonBlank(sheet'[i][slot]))
               => sheet'[i][slot] = sheet[i][slot]]_vars

(***************************************************************************)
(* The deadline calculator.                                                *)
(***************************************************************************)
Calculated == last.op = "calculate_phase_deadlines"

\* the whole days between the clock and the project deadline of the call
Available == DaysBetween(last.args.project_deadline, last.args.now)

\* the QC days of a required role before compression
FullQc(needed) == IF needed THEN 3 ELSE 0

\* the call had the days for the full QC of both phases
NotCompressed ==
    Available >= last.ret.writing_days + last.ret.design_days
                 + FullQc(last.args.needs_writer) + FullQc(last.args.needs_designer)

BothRolesMedium18 ==
    /\ last.args.needs_writer
    /\ last.args.needs_designer
    /\ last.args.priority = "Medium"
    /\ Available = 18

\* C16 as the spec states it: without compression the writing deadline lies
\* totalDays before the final deadline, 18 days in the Medium case with both
\* roles and 18 days available.
C16_WritingDeadlineTotalDaysBefore ==
    (Calculated /\ NotCompressed) =>
        /\ BothRolesMedium18 => last.ret.total_days = 18
        /\ last.ret.writing_deadline =
               last.ret.project_deadline - timedelta(last.ret.total_days)

\* C16: with both roles, Medium priority and 18 whole days available the
\* calculator does not compress, totalDays is 18 and the writing deadline is
\* 11 days before the final deadline; without compression the writing
\* deadline is the final deadline minus the days of the three later phases,
\* totalDays - writingDays.
C16_WritingDeadlineBeforeLaterPhases ==
    (Calculated /\ NotCompressed) =>
        /\ BothRolesMedium18 =>
               /\ last.ret.total_days = 18
               /\ last.ret.writing_qc_days = 3
               /\ last.ret.design_qc_days = 3
               /\ last.ret.writing_deadline = last.ret.project_deadline - timedelta(11)
        /\ last.ret.writing_deadline =
               last.ret.project_deadline
               - timedelta(last.ret.total_days - last.ret.writing_days)

C16_Witness ==
    /\ Calculated
    /\ BothRolesMedium18
    /\ last.ret.total_days = 18
    /\ last.ret.writing_deadline = last.ret.project_deadline - timedelta(11)

\* the days left for QC once the core work is taken off
QcDaysLeft == Available - (last.ret.writing_days + last.ret.design_days)

CompressedBothRoles ==
    /\ Calculated
    /\ ~NotCompressed
    /\ last.args.needs_writer
    /\ last.args.needs_designer

\* C17 as the spec states it: when compression triggers with both roles
\* required the two QC day counts sum to at most the days left after the
\* core work, and each is at least 1.
C17_QcFitsTheDaysLeft ==
    CompressedBothRoles =>
        /\ last.ret.writing_qc_days + last.ret.design_qc_days <= QcDaysLeft
        /\ last.ret.writing_qc_days >= 1
        /\ last.ret.design_qc_days >= 1

\* C17: when compression triggers with both roles required each QC day
\* count is at least 1 and at most 3; the two sum to at most the days left
\* after the core work when at least 2 days are left, and both are 1 when
\* fewer are left.
C17_QcFitsOrIsTheFloor ==
    CompressedBothRoles =>
        /\ last.ret.writing_qc_days \in 1..3
        /\ last.ret.design_qc_days \in 1..3
        /\ QcDaysLeft >= 2 =>
               last.ret.writing_qc_days + last.ret.design_qc_days <= QcDaysLeft
        /\ QcDaysLeft < 2 =>
               last.ret.writing_qc_days = 1 /\ last.ret.design_qc_days = 1

C17_Witness ==
    /\ CompressedBothRoles
    /\ last.args.priority = "Medium"
    /\ Available = 10
    /\ last.ret.writing_qc_days = 1
    /\ last.ret.design_qc_days = 1

\* a QC day count kept within 1..3
Clamped(n) == IF n > 3 THEN 3 ELSE IF n < 1 THEN 1 ELSE n

\* the reference rule of C18 for q days left for QC
ReferenceQc(q, needs_writer, needs_designer) ==
    IF q < 0 THEN [writing_qc |-> IF needs_writer THEN 1 ELSE 0,
                   design_qc |-> IF needs_designer THEN 1 ELSE 0]
    ELSE IF needs_writer /\ needs_designer
    THEN [writing_qc |-> Clamped(q \div 2), design_qc |-> Clamped(q - (q \div 2))]
    ELSE [writing_qc |-> IF needs_writer THEN Clamped(q) ELSE 0,
          design_qc |-> IF needs_designer THEN Clamped(q) ELSE 0]

\* C18: for every input of _compress_qc_time the QC day counts are those of
\* the reference rule applied to q = availableDays - (writingDays + designDays).
C18_CompressionIsTheReferenceRule ==
    last.op = "_compress_qc_time" =>
        last.ret = ReferenceQc(last.args.available_days
                               - (last.args.writing_days + last.args.design_days),
                               last.args.needs_writer, last.args.needs_designer)

C18_Witness ==
    /\ last.op = "_compress_qc_time"
    /\ last.args.needs_writer
    /\ last.args.needs_designer
    /\ last.args.available_days - (last.args.writing_days + last.args.design_days) = 5
    /\ last.ret = [writing_qc |-> 2, design_qc |-> 3]

\* the writing and design days C19 gives for each priority
ClaimedDays(priority) ==
    IF priority = "High" THEN [writing |-> 5, design |-> 4]
    ELSE IF priority = "Low" THEN [writing |-> 8, design |-> 6]
    ELSE [writing |-> 7, design |-> 5]

\* C19: writing and design days are (5, 4), (7, 5), (8, 6) for High, Medium,
\* Low and (7, 5) for any other priority; a required role's QC has 3 days
\* when nothing is compressed; every day count of a role that is not
\* required is 0; totalDays is the sum of the four day counts, compressed or
\* not.
C19_DayCounts ==
    Calculated =>
        /\ last.ret.writing_days =
               IF last.args.needs_writer THEN ClaimedDays(last.args.priority).writing
               ELSE 0
        /\ last.ret.design_days =
               IF last.args.needs_designer THEN ClaimedDays(last.args.priority).design
               ELSE 0
        /\ NotCompressed =>
               /\ last.ret.writing_qc_days = FullQc(last.args.needs_writer)
               /\ last.ret.design_qc_days = FullQc(last.args.needs_designer)
        /\ ~last.args.needs_writer => last.ret.writing_qc_days = 0
        /\ ~last.args.needs_designer => last.ret.design_qc_days = 0
        /\ last.ret.total_days =
               last.ret.writing_days + last.ret.writing_qc_days
               + last.ret.design_days + last.ret.design_qc_days

C19_Witness ==
    /\ Calculated
    /\ ~NotCompressed
    /\ last.args.priority = "High"
    /\ last.args.needs_writer
    /\ last.args.needs_designer
    /\ last.ret.writing_days = 5
    /\ last.ret.design_days = 4
    /\ last.ret.total_days = 13

\* C20: the four deadlines are the final deadline set back phase by phase:
\* designQcDeadline is the final deadline, designDeadline lies designQcDays
\* before it, writingQcDeadline designDays before that and writingDeadline
\* writingQcDays before that; so they are in order, writingDeadline equals
\* writingQcDeadline when no writer is required, and all four are the final
\* deadline when no role is required.
C20_DeadlinesSetBackInOrder ==
    Calculated =>
        /\ last.ret.design_qc_deadline = last.args.project_deadline
        /\ last.ret.design_deadline =
               last.ret.design_qc_deadline - timedelta(last.ret.design_qc_days)
        /\ last.ret.writing_qc_deadline =
               last.ret.design_deadline - timedelta(last.ret.design_days)
        /\ last.ret.writing_deadline =
               last.ret.writing_qc_deadline - timedelta(last.ret.writing_qc_days)
        /\ last.ret.writing_deadline <= last.ret.writing_qc_deadline
        /\ last.ret.writing_qc_deadline <= last.ret.design_deadline
        /\ last.ret.design_deadline <= last.ret.design_qc_deadline
        /\ ~last.args.needs_writer =>
               last.ret.writing_deadline = last.ret.writing_qc_deadline
        /\ (~last.args.needs_writer /\ ~last.args.needs_designer) =>
               /\ last.ret.writing_deadline = last.args.project_deadline
               /\ last.ret.writing_qc_deadline = last.args.project_deadline
               /\ last.ret.design_deadline = last.args.project_deadline

C20_Witness ==
    /\ Calculated
    /\ ~last.args.needs_writer
    /\ last.args.needs_designer
    /\ ~NotCompressed
    /\ last.ret.writing_deadline = last.ret.writing_qc_deadline
    /\ last.ret.writing_qc_deadline < last.ret.design_deadline
    /\ last.ret.design_deadline < last.ret.design_qc_deadline

(***************************************************************************)
(* The deadline write-back.                                                *)
(***************************************************************************)
\* the project-deadline cell of the project pid, "" when the sheet has no
\* such project
DeadlineTextOf(pid, sh) ==
    IF getProjectRow(pid, sh) < 0 THEN "" ELSE Cell(sh, getProjectRow(pid, sh), "PROJECT_DEADLINE")

UnparseableHere(pid) == DeadlineTextOf(pid, sheet) \in UnparseableTexts

UpdateCalls == last'.op = "update_project_deadlines"

\* a batch run that no store fault was injected into
CleanBatch ==
    /\ last'.op = "autoAssignUnconnectedProjects"
    /\ last'.fault = NoFault

RanAssignAll(pid) == \E i \in DOMAIN last'.log : last'.log[i] = Event("assignAll", pid)

\* C21: update_project_deadlines on a project whose deadline text is in
\* neither accepted format returns False, raises nothing and leaves every
\* cell of the sheet as it was; a batch run still runs assignAll for every
\* selected project with such a deadline text.
C21_UnparseableDeadlineAborts ==
    [][/\ (UpdateCalls /\ UnparseableHere(last'.pid))
           => (last'.ret = "False" /\ last'.exc = NoExc /\ sheet' = sheet)
       /\ CleanBatch
           => \A i \in DOMAIN last'.pids :
                  UnparseableHere(last'.pids[i]) => RanAssignAll(last'.pids[i])]_vars

\* a batch run has marked a project with an unparseable deadline connected,
\* and the write-back, asked to calculate, has then refused the deadline
C21_Witness ==
    /\ last.op = "update_project_deadlines"
    /\ last.args.auto_calculate
    /\ UnparseableHere(last.pid)
    /\ Cell(sheet, getProjectRow(last.pid, sheet), "PROJECT_CONNECTED") = "YES"
    /\ Cell(sheet, getProjectRow(last.pid, sheet), "WRITER_REQUIRED") = "YES"
    /\ last.ret = "False"

(***************************************************************************)
(* The phase of a project.                                                 *)
(***************************************************************************)
PhaseRead == last.op = "get_current_phase" /\ last.exc = NoExc

\* the row of the project the phase was read of
ReadRow == sheet[getProjectRow(last.pid, sheet) - HeaderRows]

FlagSet(cell) == cell \in {"YES", "yes"}
Present(cell) == cell # ""

\* the phase the precedence order gives to the five cells of a row
ClaimedPhase(r) ==
    CASE FlagSet(r.PROJECT_DONE) -> "complete"
      [] ~FlagSet(r.PROJECT_DONE) /\ Present(r.DESIGN_QC_EXIT_DATE) -> "complete"
      [] ~FlagSet(r.PROJECT_DONE) /\ ~Present(r.DESIGN_QC_EXIT_DATE)
         /\ Present(r.DESIGN_DONE_DATE) -> "design_qc"
      [] ~FlagSet(r.PROJECT_DONE) /\ ~Present(r.DESIGN_QC_EXIT_DATE)
         /\ ~Present(r.DESIGN_DONE_DATE) /\ Present(r.WRITER_QC_EXIT_DATE) -> "design"
      [] ~FlagSet(r.PROJECT_DONE) /\ ~Present(r.DESIGN_QC_EXIT_DATE)
         /\ ~Present(r.DESIGN_DONE_DATE) /\ ~Present(r.WRITER_QC_EXIT_DATE)
         /\ Present(r.WRITER_DONE_DATE) -> "writing_qc"
      [] OTHER -> "writing"

\* C22: the phase get_current_phase returns is decided by the project-done
\* flag and the four completion markers of the row alone, in the order
\* project done, design-QC exit, design done, writer-QC exit, writer done:
\* the first of them that is set or present gives Complete, Complete,
\* DesignQC, Design, WritingQC, and Writing when none is.
C22_PhaseByPrecedence == PhaseRead => last.ret = ClaimedPhase(ReadRow)

\* the phase was read of a project whose writer-done and design-done dates
\* are present and whose QC exits are not: the later marker decides
C22_Witness ==
    /\ PhaseRead
    /\ ReadRow.WRITER_DONE_DATE # "" /\ ReadRow.DESIGN_DONE_DATE # ""
    /\ ReadRow.WRITER_QC_EXIT_DATE = "" /\ ReadRow.DESIGN_QC_EXIT_DATE = ""
    /\ ReadRow.PROJECT_DONE = "No"
    /\ last.ret = "design_qc"

(***************************************************************************)
(* The penalties.                                                          *)
(***************************************************************************)
\* the weight per open task of a priority text
ClaimedWeight(priority) ==
    CASE priority \in {"High", " high ", "HIGH"} -> 10
      [] priority \in {"Medium", "medium"} -> 6
      [] priority \in {"Low", " lOW"} -> 3
      [] OTHER -> 1

PenaltyCall == last.op = "getWorkloadPenalty"
PenaltyCallNext == last'.op = "getWorkloadPenalty"

\* C23: getWorkloadPenalty(p, n) is 10n, 6n, 3n for High, Medium, Low in any
\* case and with surrounding blanks, and n for any other text; for one
\* priority a larger n never gives a smaller penalty, and for one n > 0 a
\* priority of greater weight gives a strictly greater penalty.
C23_WorkloadPenalty ==
    [][/\ PenaltyCallNext
           => last'.ret = ClaimedWeight(last'.args.priority) * last'.args.open_tasks
       /\ (PenaltyCall /\ PenaltyCallNext)
           => /\ (/\ ClaimedWeight(last.args.priority) = ClaimedWeight(last'.args.priority)
                  /\ last.args.open_tasks <= last'.args.open_tasks)
                  => last.ret <= last'.ret
              /\ (/\ ClaimedWeight(last.args.priority) > ClaimedWeight(last'.args.priority)
                  /\ last.args.open_tasks = last'.args.open_tasks
                  /\ last.args.open_tasks > 0)
                  => last.ret > last'.ret]_vars

\* High in lower case and with blanks, 3 open tasks, after Medium with 3
C23_Witness ==
    /\ PenaltyCall
    /\ last.args = [priority |-> " high ", open_tasks |-> 3]
    /\ last.ret = 30
    /\ calls = 2

\* a topic or category text without its surrounding blanks, in lower case
Folded ==
    [t \in TopicTexts \cup CategoryTexts |->
        CASE t \in {"Science", " science ", "SCIENCE "} -> "science"
          [] t \in {"ART", "Art"} -> "art"
          [] t \in {"any", "ANY", " any"} -> "any"
          [] t \in {"do not assign", "DO NOT ASSIGN"} -> "do not assign"
          [] t = "DO NOT  ASSIGN" -> "do not  assign"
          [] t = "Sci ence" -> "sci ence"
          [] OTHER -> ""]

ClaimedTopicPenalty(topic, category) ==
    CASE Folded[topic] = Folded[category] -> 0
      [] Folded[topic] # Folded[category] /\ Folded[category] = "do not assign" -> 1000
      [] Folded[topic] # Folded[category] /\ Folded[category] = "any" -> 2
      [] OTHER -> 10

TopicCall == last.op = "getTopicPenalty"

\* C24: getTopicPenalty is 0 exactly when topic and category are the same
\* text up to case and surrounding blanks; otherwise it is 1000 for the
\* category DO NOT ASSIGN, 2 for the category ANY and 10 for every other
\* category.
C24_TopicPenalty ==
    TopicCall
        => /\ last.ret = ClaimedTopicPenalty(last.args.required_topic, last.args.writer_category)
           /\ last.ret = 0 <=> Folded[last.args.required_topic] = Folded[last.args.writer_category]
           /\ last.ret = 1000 => Folded[last.args.writer_category] = "do not assign"
           /\ last.ret = 2 => Folded[last.args.writer_category] = "any"

\* a topic in lower case with blanks met its category in upper case
C24_Witness ==
    /\ TopicCall
    /\ last.args = [required_topic |-> " science ", writer_category |-> "SCIENCE "]
    /\ last.ret = 0

(***************************************************************************)
(* The rankers.                                                            *)
(***************************************************************************)
\* the place of candidate i among the candidates E: behind every candidate
\* of greater score and every earlier candidate of the same score
PlaceIn(cands, E, i) ==
    Cardinality({j \in E : \/ cands[j].score > cands[i].score
                           \/ cands[j].score = cands[i].score /\ j < i}) + 1

\* the names of the candidates E by place
ByPlace(cands, E) ==
    [k \in 1..Cardinality(E) |-> cands[CHOOSE i \in E : PlaceIn(cands, E, i) = k].name]

ScoredWriters == [i \in DOMAIN writers |-> processWriterRow(writers[i], last.args.topic)]
ScoredDesigners == [i \in DOMAIN designers |-> processDesignerRow(designers[i], last.args.priority)]
ScoredControllers == [i \in DOMAIN controllers |-> processControllerRow(controllers[i])]

Named(rows) == {i \in DOMAIN rows : rows[i].NAME \notin {"", " ", "  "}}

FactsOf(cases, row) == CHOOSE c \in cases : c.row = row

\* the rows of a sheet that have a name and a number, or nothing, as KPI
Rankable(cases, rows) == {i \in Named(rows) : FactsOf(cases, rows[i]).kpi >= 0}

ClaimedWriterScore(row, topic) ==
    FactsOf(WriterCases, row).kpi - ClaimedTopicPenalty(topic, row.CATEGORY)
    - 6 * FactsOf(WriterCases, row).open

ClaimedWriters ==
    [i \in DOMAIN writers |->
        [name |-> FactsOf(WriterCases, writers[i]).row.NAME,
         score |-> ClaimedWriterScore(writers[i], last.args.topic)]]

ClaimedPlatformBonus(platform) ==
    CASE platform = "Adobe" -> 5
      [] platform = " Figma " -> 4
      [] platform = "Canva" -> 3
      [] platform = "ProCreate" -> 2
      [] platform = "Sketch" -> 1
      [] OTHER -> 0

ClaimedPrinciplesBonus(flag) == IF flag \in {"YES", "yes"} THEN 3 ELSE 0

ClaimedDesignerScore(row, priority) ==
    FactsOf(DesignerCases, row).kpi + ClaimedPlatformBonus(row.PLATFORM)
    + ClaimedPrinciplesBonus(row.DESIGN_PRINCIPLES)
    - ClaimedWeight(priority) * FactsOf(DesignerCases, row).open

ClaimedDesigners ==
    [i \in DOMAIN designers |->
        [name |-> IF designers[i].NAME = " " THEN "" ELSE designers[i].NAME,
         score |-> ClaimedDesignerScore(designers[i], last.args.priority)]]

\* C27: the score of a designer row is kpi + platformBonus + principlesBonus
\* - weight(priority) * openTasks, the platform bonus being 5, 4, 3, 2, 1 for
\* Adobe, Figma, Canva, ProCreate, Sketch and 0 for Variety, Other and any
\* unknown platform, the principles bonus 3 for the flag YES and 0 otherwise,
\* and getBestDesigner ranks by it.
C27_DesignerScore ==
    /\ (last.op = "processDesignerRow" /\ FactsOf(DesignerCases, last.args.row).kpi >= 0)
           => /\ last.ret.ok
              /\ last.ret.score = ClaimedDesignerScore(last.args.row, last.args.priority)
    /\ last.op = "getBestDesigner"
           => last.ret = ByPlace(ClaimedDesigners, Rankable(DesignerCases, designers))

\* a designer on an unknown platform with two open tasks on a High priority
\* project: 0 + 0 + 3 - 20
C27_Witness ==
    /\ last.op = "processDesignerRow"
    /\ last.args.row.PLATFORM = "adobe"
    /\ last.args.priority = "High"
    /\ last.ret.score = -17

\* a speciality text without its surrounding blanks, in lower case
FoldedSpeciality(text) ==
    CASE text \in {"Writing", "writing"} -> "writing"
      [] text \in {"Design", "design", " DESIGN "} -> "design"
      [] text = "Both" -> "both"
      [] text = "any" -> "any"

ControllerFacts(row) == FactsOf(ControllerCases \cup PoolControllerCases, row)

ClaimedControllers ==
    [i \in DOMAIN controllers |->
        [name |-> controllers[i].NAME,
         score |-> ControllerFacts(controllers[i]).kpi - 2 * ControllerFacts(controllers[i]).open]]

\* the named, rankable controllers that take work of the speciality s
ClaimedMatching(s) ==
    {i \in Named(controllers) :
        /\ ControllerFacts(controllers[i]).kpi >= 0
        /\ FoldedSpeciality(controllers[i].SPECIALITY) \in {FoldedSpeciality(s), "both", "any"}}

ClaimedBestController(s) == ByPlace(ClaimedControllers, ClaimedMatching(s))

\* a controller call found its project with the slot col empty, and has
\* written the first controller of the speciality s, or nothing when there
\* is none
RankedWith(op, col, s) ==
    (/\ last'.op = op
     /\ getProjectRow(last'.pid, sheet) > 0
     /\ Cell(sheet, getProjectRow(last'.pid, sheet), col) = "")
        => IF ClaimedBestController(s) = <<>> THEN sheet' = sheet
           ELSE sheet' = UpdateCell(sheet, getProjectRow(last'.pid, sheet), col,
                                    ClaimedBestController(s)[1])

Count(seq, x) == Cardinality({i \in DOMAIN seq : seq[i] = x})

\* the names seq holds are the names of the rows E, each as often
NamesOfRows(seq, rows, E) ==
    /\ Len(seq) = Cardinality(E)
    /\ \A i \in DOMAIN rows :
           rows[i].NAME \in {"", " ", "  "}
           \/ Count(seq, rows[i].NAME) = Cardinality({j \in E : rows[j].NAME = rows[i].NAME})

RowProcessed == last.op \in {"processWriterRow", "processDesignerRow", "processControllerRow"}

KpiFacts(row) == FactsOf(WriterCases \cup DesignerCases \cup ControllerCases \cup PoolControllerCases, row)

\* C29: a ranker's output holds one name for every row that has a name and
\* whose KPI cell is a number or empty, a name as often as rows carry it,
\* and nothing for the other rows; a row with an empty KPI cell is scored
\* with kpi 0, and a row whose KPI cell is not a number raises in scoring
\* and is left out while the ranker itself raises nothing.
C29_RowsLeftOutAndKept ==
    /\ last.op = "getBestWriter"
           => last.exc = NoExc
              /\ NamesOfRows(last.ret, writers, Rankable(WriterCases, writers))
    /\ last.op = "getBestDesigner"
           => last.exc = NoExc
              /\ NamesOfRows(last.ret, designers, Rankable(DesignerCases, designers))
    /\ last.op = "getBestController"
           => last.exc = NoExc
              /\ NamesOfRows(last.ret, controllers, ClaimedMatching(last.args.speciality))
    /\ RowProcessed => (last.ret.ok <=> KpiFacts(last.args.row).kpi >= 0)
    /\ (last.op = "processControllerRow" /\ last.args.row.KPI = "")
           => last.ret.score = 0 - 2 * KpiFacts(last.args.row).open

\* two writers called Sam are both ranked; the nameless row and the row with
\* the KPI n/a are left out
C29_Witness ==
    /\ last.op = "getBestWriter"
    /\ Len(writers) = 3
    /\ writers[1] = BadKpi /\ writers[2].NAME = "Sam" /\ writers[3].NAME = "Sam"
    /\ last.ret = <<"Sam", "Sam">>

(***************************************************************************)
(* Project ids.                                                            *)
(***************************************************************************)
\* the numeric ids 0..999999 of the calls and the forms they are given in:
\* an integer, digits with or without zero padding, with or without '#'
CanonicalOf ==
    [pid \in {"1", "000001", "#000001", "#1", "7", "#7", "2", "000002", "#000002",
              "#000009"} |->
        CASE pid \in {"1", "000001", "#000001", "#1"} -> "#000001"
          [] pid \in {"2", "000002", "#000002"} -> "#000002"
          [] pid \in {"7", "#7"} -> "#000007"
          [] pid = "#000009" -> "#000009"]

CanonicalOfNumber ==
    [num \in {0, 1, 7, 999999} |->
        CASE num = 0 -> "#000000"
          [] num = 1 -> "#000001"
          [] num = 7 -> "#000007"
          [] num = 999999 -> "#999999"]

\* formatPID was called with a text, with an integer
FormattedText == last.op = "formatPID" /\ "pid" \in DOMAIN last.args
FormattedNumber == last.op = "formatPID" /\ "num" \in DOMAIN last.args

\* the forms getProjectRow takes the id 1 in, and the ids of no row
FormsOfOne == {"1", "000001", "#000001", "#1", "'1", "'#000001"}
IdsOfNoRow == {"#000009", "7"}

FirstIsOne == Len(sheet) > 0 /\ sheet[1].PROJECT_ID = "#000001"

\* C30: formatPID gives '#' and six zero-padded digits for every id in
\* 0..999999 given as an integer or as digits, padded or not, with or
\* without '#', returns its own output unchanged and raises for every other
\* input; getProjectRow finds the row of the id 1 for every form the id is
\* given in (bare digits, with '#', with a stray leading quote) and returns
\* -1 for an id no row has.
C30_OneIdOneRow ==
    /\ FormattedText
           => IF last.args.pid \in DOMAIN CanonicalOf
              THEN last.exc = NoExc /\ last.ret = CanonicalOf[last.args.pid]
              ELSE last.exc # NoExc
    /\ FormattedNumber
           => IF last.args.num \in DOMAIN CanonicalOfNumber
              THEN last.exc = NoExc /\ last.ret = CanonicalOfNumber[last.args.num]
              ELSE last.exc # NoExc
    /\ (FormattedText /\ last.exc = NoExc)
           => formatPID(last.ret) = last.ret
    /\ (last.op = "getProjectRow" /\ FirstIsOne /\ last.args.project_id \in FormsOfOne)
           => last.ret = 1 + HeaderRows
    /\ (last.op = "getProjectRow" /\ last.args.project_id \in IdsOfNoRow)
           => last.ret = -1

(***************************************************************************)
(* The frame of assignAll.                                                 *)
(***************************************************************************)
AllCalled == last'.op = "assignAll"

\* every cell of the sheet but the four slots of row p is as it was
OnlySlotsOf(p) ==
    /\ Len(sheet') = Len(sheet)
    /\ \A i \in DOMAIN sheet :
           /\ DOMAIN sheet'[i] = DOMAIN sheet[i]
           /\ \A f \in DOMAIN sheet[i] :
                  (i # p \/ f \notin Slots) => sheet'[i][f] = sheet[i][f]

OpenTasksOf(rows) ==
    [i \in DOMAIN rows |->
        OpenTasks(rows[i].ASSIGNED_WORK,
                  IF "WRITINGS_FINISHED" \in DOMAIN rows[i] THEN rows[i].WRITINGS_FINISHED
                  ELSE rows[i].DESIGNS_FINISHED)]

\* C31: a call of assignAll on project P changes no cell but P's four
\* assignment slots and leaves the writer, designer and controller tables
\* as they were, so the open-task count of every candidate is the same after
\* the call as before it.
C31_AssignAllWritesOnlySlots ==
    [][AllCalled
           => /\ OnlySlotsOf(RowOfCall)
              /\ writers' = writers /\ designers' = designers /\ controllers' = controllers
              /\ OpenTasksOf(writers') = OpenTasksOf(writers)
              /\ OpenTasksOf(designers') = OpenTasksOf(designers)]_vars

\* assignAll has filled the writer's slots of the first project of a sheet
\* of two, from a table whose first writer has an open task
C31_Witness ==
    /\ last.op = "assignAll"
    /\ last.pid = "#000001"
    /\ Len(sheet) = 2
    /\ sheet[1].ASSIGNED_WRITER = "Bob"
    /\ NonBlank(sheet[1].WRITER_QC_CONTROLLER)
    /\ sheet[1].PROJECT_CONNECTED = ""
    /\ writers = <<Ann, Bob>>

(***************************************************************************)
(* Writers marked DO NOT ASSIGN.                                           *)
(***************************************************************************)
\* the names of the rows of the writer table whose category is DO NOT ASSIGN
Blacklisted ==
    { "Dna" } \cap { writers[i].NAME : i \in DOMAIN writers }

\* C32: a writer whose category is DO NOT ASSIGN is never written into a
\* writer slot by assignWriter or assignAll, also when it is the only valid
\* row of the writer table.
C32_BlacklistedNeverAssigned ==
    \A i \in DOMAIN sheet : sheet[i].ASSIGNED_WRITER \notin Blacklisted

(***************************************************************************)
(* The deadline step of the batch.                                         *)
(***************************************************************************)
\* deadline texts in one of the two accepted formats
ParseableTexts == {"2025-03-20", "03/20/2025", "3/5/2025", "2025-04-01"}

\* the row of project pid has a parseable deadline and requires the role of
\* the flag, and the cell to is blank in the sheet sh
LeftBlank(pid, flag, to, sh) ==
    /\ getProjectRow(pid, sheet) > 0
    /\ DeadlineTextOf(pid, sheet) \in ParseableTexts
    /\ Cell(sheet, getProjectRow(pid, sheet), flag) = "YES"
    /\ Cell(sh, getProjectRow(pid, sheet), to) = ""

\* C33: a batch run writes, for each selected project that has a parseable
\* project deadline and requires a writer and/or a designer, the calculated
\* writer-deadline and/or design-deadline cell (before assignAll runs for the
\* project, hence by the time the run returns).
C33_BatchWritesSubDeadlines ==
    [][CleanBatch
           => \A i \in DOMAIN last'.pids :
                  /\ ~LeftBlank(last'.pids[i], "WRITER_REQUIRED", "WRITER_DEADLINE", sheet')
                  /\ ~LeftBlank(last'.pids[i], "DESIGNER_REQUIRED", "DESIGN_DEADLINE", sheet')]_vars

(***************************************************************************)
(* What a report of 'Assigned' says about the sheet.                       *)
(***************************************************************************)
SlotOfRole ==
    [writer |-> "ASSIGNED_WRITER", writer_controller |-> "WRITER_QC_CONTROLLER",
     designer |-> "ASSIGNED_DESIGNER", design_controller |-> "DESIGN_QC_CONTROLLER"]

\* every role the map reports as 'Assigned' has a non-blank slot in the row
\* of project pid
AssignedMeansFilled(map, pid) ==
    \A role \in DOMAIN map \cap DOMAIN SlotOfRole :
        map[role] = "Assigned" => NonBlank(Cell(sheet, getProjectRow(pid, sheet), SlotOfRole[role]))

\* C36: whenever assignAll or checkPendingDesignerAssignments reports
\* 'Assigned' for a role of a project, the slot of that role in the project
\* row is non-blank when the call returns.
C36_AssignedMeansFilled ==
    /\ (last.op = "assignAll" /\ last.exc = NoExc)
           => AssignedMeansFilled(last.ret, last.pid)
    /\ (last.op = "checkPendingDesignerAssignments" /\ last.exc = NoExc)
           => \A pid \in DOMAIN last.ret.assignments :
                  AssignedMeansFilled(last.ret.assignments[pid], pid)

(***************************************************************************)
(* Repeated runs of the batch.                                             *)
(***************************************************************************)
\* row i is a project not yet connected that is ready, requires a writer
\* and has a topic, and the writer slots are still to be filled
ToBeStaffed(i) ==
    /\ i \in DOMAIN sheet
    /\ sheet[i].READY_TO_ASSIGN \in {"YES", "yes", "Y", "TRUE"}
    /\ sheet[i].WRITER_REQUIRED \in {"YES", "true"}
    /\ sheet[i].PROJECT_CONNECTED \in {"", "No"}
    /\ sheet[i].WRITER_TOPIC \in {"Science", "Art"}

Staffed(i) ==
    /\ i \in DOMAIN sheet
    /\ sheet[i].ASSIGNED_WRITER \notin {"", " "}
    /\ sheet[i].WRITER_QC_CONTROLLER \notin {"", " "}

\* C37: under repeated runs of the batch and of the pending check, with a
\* valid writer row and a Writing-capable controller row in the tables, every
\* project that is ready, requires a writer and has a topic eventually has
\* non-blank writer and writer-QC-controller slots, also after a run of
\* assignAll on it that reported 'Failed: ...' for one of these roles.
C37_EventuallyStaffed ==
    \A i \in 1..2 : ToBeStaffed(i) ~> Staffed(i)

(***************************************************************************)
(* Declined assignments.                                                   *)
(***************************************************************************)
Declined(role_type) ==
    /\ last'.op = "decline_assignment"
    /\ last'.args.role_type = role_type

\* the candidate table of the role holds two rows the ranker keeps for the
\* project: one more than the person who declined
OthersEligible(role_type) ==
    \/ role_type = "writer" /\ writers = <<Ann, Bob>>
                            /\ sheet[RowOfCall].WRITER_TOPIC \in {"Science", "Art"}
    \/ role_type = "designer" /\ designers = <<Dan, Dee>>

\* C34: a decline clears only the slot of the declined role, the
\* reassignment goes through the not-already-assigned guard (no other filled
\* slot changes), and with another eligible candidate in the unchanged
\* table the slot is refilled with a candidate other than the one who
\* declined.
C34_DeclineFindsAnother ==
    [][\A role_type \in RoleTypes :
           Declined(role_type)
               => /\ \A i \in DOMAIN sheet : \A slot \in Slots :
                         (NonBlank(sheet[i][slot]) /\ ~(i = RowOfCall /\ slot = RoleColumn[role_type]))
                             => sheet'[i][slot] = sheet[i][slot]
                  /\ OthersEligible(role_type)
                         => /\ NonBlank(sheet'[RowOfCall][RoleColumn[role_type]])
                            /\ sheet'[RowOfCall][RoleColumn[role_type]] # last'.args.person_name]_vars

(***************************************************************************)
(* The thread registry.                                                    *)
(***************************************************************************)
Did(op) == last'.op = op

\* the entries of the threads other than t, by thread
Entries(d) == {<<d[i].thread_id, d[i].info>> : i \in DOMAIN d}

OtherEntries(d, t) == {e \in Entries(d) : e[1] # t}

IsRegistered(t, d) == \E e \in Entries(d) : e[1] = t

\* C35: after register_thread(t, p, u), get_thread_project(t) returns an
\* entry with project id p and find_project_thread(p) returns a thread
\* registered to p; unregister_thread(t) returns true exactly when t was
\* registered, and get_thread_project(t) returns nothing afterwards;
\* registering or unregistering t leaves the entries of all other threads
\* unchanged.
C35_RegistryRoundTrip ==
    [][/\ Did("register_thread")
           => /\ Len(get_thread_project(last'.args.thread_id, db')) = 1
              /\ get_thread_project(last'.args.thread_id, db')[1].project_id
                     = last'.args.project_id
              /\ Len(find_project_thread(last'.args.project_id, db')) = 1
              /\ \E e \in Entries(db') :
                     /\ e[1] = find_project_thread(last'.args.project_id, db')[1]
                     /\ e[2].project_id = last'.args.project_id
              /\ OtherEntries(db', last'.args.thread_id) = OtherEntries(db, last'.args.thread_id)
       /\ Did("unregister_thread")
           => /\ last'.ret = IsRegistered(last'.args.thread_id, db)
              /\ get_thread_project(last'.args.thread_id, db') = <<>>
              /\ OtherEntries(db', last'.args.thread_id) = OtherEntries(db, last'.args.thread_id)]_vars

\* a thread was registered to the project of an earlier thread, which
\* find_project_thread still returns, and the registry holds three threads
C35_Witness ==
    /\ last.op = "find_project_thread"
    /\ Len(db) = 3
    /\ last.ret = <<db[1].thread_id>>
    /\ db[3].info.project_id = last.args.project_id
    /\ db[2].info.project_id # last.args.project_id

(***************************************************************************)
(* The scan and the registry.                                              *)
(***************************************************************************)
\* the scan's save ends a window that began with its load
ScanSaves == scan.pc = "await" /\ scan'.pc = "sleep"

\* C39: a thread registered while auto_fail_expired_threads is suspended
\* between loading and saving the registry is still registered after the
\* scan has saved, and a thread unregistered in that window stays
\* unregistered.
C39_WindowKept ==
    [][ScanSaves
           => \A t \in ThreadIds :
                  /\ (IsRegistered(t, db) /\ ~IsRegistered(t, scan.db)) => IsRegistered(t, db')
                  /\ (~IsRegistered(t, db) /\ IsRegistered(t, scan.db)) => ~IsRegistered(t, db')]_vars

(***************************************************************************)
(* QC result notifications.                                                *)
(***************************************************************************)
\* two runs of the timer in a row, with no edit of the sheet in between
RunsAgain ==
    /\ last.op = "check_qc_results"
    /\ last'.op = "check_qc_results"
    /\ sheet' = sheet

\* C38: while the sheet is unchanged, a PASS or FAIL result that one run of
\* check_qc_results has notified the assignee and the QC controller of is
\* not notified again by a later run.
C38_NotifiedOnce ==
    [][RunsAgain
           => \A i \in DOMAIN sent' : \A j \in DOMAIN sent : i > Len(sent) => sent'[i] # sent[j]]_vars
====
